---- MODULE Spec2Model ----
(***************************************************************************)
(* ProcessManager of app/managers/process_manager.py: the table of named   *)
(* player subprocesses, its per-name log-streaming resources, and the      *)
(* operations start, stop, is_running, get_all_statuses,                   *)
(* cleanup_dead_processes and stop_all.                                    *)
(*                                                                         *)
(* A subprocess is identified by its PID.  The streaming resources that    *)
(* _setup_streaming creates for a process (the stop event, the log file,   *)
(* the two reader threads) are created at most once per process, so each   *)
(* is identified by the PID of the process it was created for.             *)
(*                                                                         *)
(* The environment decides what a command does when it is run, whether     *)
(* the log file can be opened, what signaling a process leads to, and when *)
(* a subprocess exits.  Creating a thread and writing to the console are   *)
(* taken to succeed.  A statement on a dict is atomic (the interpreter     *)
(* lock); the manager has no lock of its own.                              *)
(***************************************************************************)
EXTENDS Integers, FiniteSets, Sequences, TLC

(***************************************************************************)
(* Bounds of the model.                                                    *)
(***************************************************************************)
\* Number of subprocesses spawned in one behaviour (PIDs are 1..MaxPid).
MaxPid == 2

Names == {"X", "Y"}
PIDs == 1..MaxPid
Streams == {"stdout", "stderr"}

(***************************************************************************)
(* What a command does when it is run, decided by the environment:         *)
(*   "missing" Popen raises FileNotFoundError                              *)
(*   "denied"  Popen raises another exception (permission, resources)      *)
(*   "crash"   the process is spawned and exits within the grace period    *)
(*   "serve"   the process is spawned and is alive after the grace period  *)
(* NoCommand is fallback_command=None.                                     *)
(***************************************************************************)
Behaviours == {"missing", "denied", "crash", "serve"}
NoCommand == "none"

(***************************************************************************)
(* What happens when stop signals a live process:                          *)
(*   "graceful" the process exits within PROCESS_STOP_TIMEOUT_SECS         *)
(*   "forced"   wait times out, SIGKILL is sent, the process exits         *)
(*   "stuck"    wait times out, the forced kill raises or times out (the   *)
(*              exception is swallowed), the process is still alive        *)
(*   "error"    os.getpgid / os.killpg raises (EPERM, ...): nothing was    *)
(*              signaled                                                   *)
(*   "nogroups" the platform has no process groups (sys.platform is win32, *)
(*              the case _get_preexec_fn returns None for): os.killpg does *)
(*              not exist, evaluating it raises, nothing was signaled      *)
(***************************************************************************)
StopOutcomes == {"graceful", "forced", "stuck", "error", "nogroups"}

VARIABLES
    processes,        \* self.processes: name -> PID of its Popen
    _stream_threads,  \* self._stream_threads: name -> set of reader threads
    _log_files,       \* self._log_files: name -> log file
    _stop_events,     \* self._stop_events: name -> stop event
    alive,            \* PIDs whose process has not exited (poll() is None)
    eventSet,         \* stop events that are set
    joined,           \* reader threads join() was called on
    closeCalls,       \* log file -> number of close() calls on it
    nextPid,          \* the PID the next spawn gets
    setsMade,         \* the streaming resources start has registered so far
    last,             \* the call that has just returned, with its result
    pc,               \* name -> where the call in progress on that name is
    loc,              \* name -> the locals of the call on that name
    readers,          \* the reader threads of one process, their pipes and sinks
    pgid              \* PID -> the process group the process was put in

vars == <<processes, _stream_threads, _log_files, _stop_events, alive,
          eventSet, joined, closeCalls, nextPid, setsMade, last, pc, loc,
          readers, pgid>>

\* What the manager and the operating system hold.
Managed ==
    <<processes, _stream_threads, _log_files, _stop_events, alive, eventSet,
      joined, closeCalls, nextPid>>

(***************************************************************************)
(* Python dict operations on a function with a finite domain.              *)
(***************************************************************************)
Put(d, k, v) == [x \in (DOMAIN d) \cup {k} |-> IF x = k THEN v ELSE d[x]]
Del(d, k) == [x \in (DOMAIN d) \ {k} |-> d[x]]
EmptyDict == [x \in {} |-> 0]

\* The manager's state and the part of the operating system it acts on,
\* as one record, so that each method is a function on it.
State ==
    [processes |-> processes, _stream_threads |-> _stream_threads,
     _log_files |-> _log_files, _stop_events |-> _stop_events,
     alive |-> alive, eventSet |-> eventSet,
     joined |-> joined, closeCalls |-> closeCalls]

Install(st) ==
    /\ processes' = st.processes
    /\ _stream_threads' = st._stream_threads
    /\ _log_files' = st._log_files
    /\ _stop_events' = st._stop_events
    /\ alive' = st.alive
    /\ eventSet' = st.eventSet
    /\ joined' = st.joined
    /\ closeCalls' = st.closeCalls

\* Popen.poll() is None
Poll(st, p) == p \in st.alive

Threads(p) == {<<p, s>> : s \in Streams}

(***************************************************************************)
(* _cleanup_streaming(name)                                                *)
(***************************************************************************)
\* Faulty variant: sets every stop event and clears the whole map
CleanupStopEventAll(st, n) ==
    IF n \in DOMAIN st._stop_events
    THEN [st EXCEPT !.eventSet =
                        @ \cup {st._stop_events[m] : m \in DOMAIN st._stop_events},
                    !._stop_events = EmptyDict]
    ELSE st

CleanupStopEvent(st, n) ==
    IF n \in DOMAIN st._stop_events
    THEN [st EXCEPT !.eventSet = @ \cup {st._stop_events[n]},
                    !._stop_events = Del(@, n)]
    ELSE st

\* join(timeout=0.5) returns whether or not the thread has finished
CleanupThreads(st, n) ==
    IF n \in DOMAIN st._stream_threads
    THEN [st EXCEPT !.joined = @ \cup st._stream_threads[n],
                    !._stream_threads = Del(@, n)]
    ELSE st

\* Faulty variant: closes every log file and clears the whole map
CleanupLogFileAll(st, n) ==
    IF n \in DOMAIN st._log_files
    THEN [st EXCEPT !.closeCalls =
                        [x \in PIDs |->
                            IF \E m \in DOMAIN st._log_files :
                                   st._log_files[m] = x
                            THEN @[x] + 1 ELSE @[x]],
                    !._log_files = EmptyDict]
    ELSE st

CleanupLogFile(st, n) ==
    IF n \in DOMAIN st._log_files
    THEN [st EXCEPT !.closeCalls[st._log_files[n]] = @ + 1,
                    !._log_files = Del(@, n)]
    ELSE st

CleanupStreaming(st, n) ==
    CleanupLogFile(CleanupThreads(CleanupStopEvent(st, n), n), n)

(***************************************************************************)
(* _setup_streaming(name, process); openOk: open(log_path, "a") succeeds   *)
(***************************************************************************)
SetupStopEvent(st, n, p) ==
    [st EXCEPT !._stop_events = Put(@, n, p)]

SetupLogFile(st, n, p, openOk) ==
    IF openOk
    THEN [st EXCEPT !._log_files = Put(@, n, p)]
    ELSE st

SetupThreads(st, n, p) ==
    [st EXCEPT !._stream_threads = Put(@, n, Threads(p))]

\* Faulty variant: no reader thread is started when the open has failed
SetupStreamingNeedsFile(st, n, p, openOk) ==
    IF openOk
    THEN SetupThreads(SetupLogFile(SetupStopEvent(st, n, p), n, p, openOk),
                      n, p)
    ELSE SetupStopEvent(st, n, p)

SetupStreaming(st, n, p, openOk) ==
    SetupThreads(SetupLogFile(SetupStopEvent(st, n, p), n, p, openOk), n, p)

(***************************************************************************)
(* subprocess.Popen(command, stdout=PIPE, stderr=PIPE, preexec_fn=...)     *)
(* for a command that can be executed: a new live process with PID p.      *)
(***************************************************************************)
Popen(st, p) ==
    [st EXCEPT !.alive = @ \cup {p}]

\* time.sleep(PROCESS_STARTUP_DELAY_SECS): a "crash" command's process
\* exits during it
Sleep(st, p, b) ==
    IF b = "crash" THEN [st EXCEPT !.alive = @ \ {p}] ELSE st

Result(st, ok, msg, n) == [st |-> st, ok |-> ok, msg |-> msg, spawned |-> n]

(***************************************************************************)
(* _start_fallback(name, command): f is what the fallback command does,    *)
(* q the PID its process gets.  FileNotFoundError has no handler of its    *)
(* own here.                                                               *)
(***************************************************************************)
\* Faulty variant: the fallback's process is not stored in the table
StartFallbackNoRegister(st, n, f, openOk, q) ==
    IF f \in {"missing", "denied"}
    THEN Result(st, FALSE, "Error starting fallback", 1)
    ELSE LET s1 == Popen(st, q)
             s2 == Sleep(s1, q, f)
         IN  IF ~Poll(s2, q)
             THEN Result(s2, FALSE, "Fallback also failed", 2)
             ELSE Result(SetupStreaming(s2, n, q, openOk), TRUE,
                         "started with fallback configuration", 2)

StartFallback(st, n, f, openOk, q) ==
    IF f \in {"missing", "denied"}
    THEN Result(st, FALSE, "Error starting fallback", 1)
    ELSE LET s1 == [Popen(st, q) EXCEPT
                        !.processes = Put(@, n, q)]
             s2 == Sleep(s1, q, f)
         IN  IF ~Poll(s2, q)
             THEN Result(s2, FALSE, "Fallback also failed", 2)
             ELSE Result(SetupStreaming(s2, n, q, openOk), TRUE,
                         "started with fallback configuration", 2)

(***************************************************************************)
(* start(name, command, fallback_command): c is what the command does, f   *)
(* what the fallback command does (NoCommand: none given), p and q the     *)
(* PIDs of the processes spawned for them.                                 *)
(***************************************************************************)
\* Faulty variant: the poll test is inverted
StartAlreadyRunningInverted(st, n) ==
    n \in DOMAIN st.processes /\ ~Poll(st, st.processes[n])

\* Faulty variant: a tracked name counts as running without a poll
StartAlreadyRunningTracked(st, n) ==
    n \in DOMAIN st.processes

StartAlreadyRunning(st, n) ==
    n \in DOMAIN st.processes /\ Poll(st, st.processes[n])

\* Faulty variant: the process is not stored in the table
StartSpawnedNoRegister(st, n, c, f, openOk, p, q) ==
    LET s1 == Popen(st, p)
        s2 == Sleep(s1, p, c)
    IN  IF ~Poll(s2, p)
        THEN IF f # NoCommand
             THEN StartFallback(s2, n, f, openOk, q)
             ELSE Result(s2, FALSE, "Process failed to start", 1)
        ELSE Result(SetupStreaming(s2, n, p, openOk), TRUE,
                    "started successfully", 1)

\* Faulty variant: the fallback is run whether or not the primary exited
StartSpawnedAlwaysFallback(st, n, c, f, openOk, p, q) ==
    LET s1 == [Popen(st, p) EXCEPT !.processes = Put(@, n, p)]
        s2 == Sleep(s1, p, c)
    IN  IF f # NoCommand
        THEN StartFallback(s2, n, f, openOk, q)
        ELSE IF ~Poll(s2, p)
        THEN Result(s2, FALSE, "Process failed to start", 1)
        ELSE Result(SetupStreaming(s2, n, p, openOk), TRUE,
                    "started successfully", 1)

StartSpawned(st, n, c, f, openOk, p, q) ==
    LET s1 == [Popen(st, p) EXCEPT !.processes = Put(@, n, p)]
        s2 == Sleep(s1, p, c)
    IN  IF ~Poll(s2, p)
        THEN IF f # NoCommand
             THEN StartFallback(s2, n, f, openOk, q)
             ELSE Result(s2, FALSE, "Process failed to start", 1)
        ELSE Result(SetupStreaming(s2, n, p, openOk), TRUE,
                    "started successfully", 1)

\* Faulty variant: the stale streaming resources are not torn down first
StartNoCleanup(st, n, c, f, openOk, p, q) ==
    IF StartAlreadyRunning(st, n)
    THEN Result(st, FALSE, "already running", 0)
    ELSE CASE c = "missing" -> Result(st, FALSE, "Binary not found", 0)
           [] c = "denied" -> Result(st, FALSE, "Error starting process", 0)
           [] OTHER -> StartSpawned(st, n, c, f, openOk, p, q)

Start(st, n, c, f, openOk, p, q) ==
    IF StartAlreadyRunning(st, n)
    THEN Result(st, FALSE, "already running", 0)
    ELSE LET s0 == CleanupStreaming(st, n)
         IN  CASE c = "missing" -> Result(s0, FALSE, "Binary not found", 0)
               [] c = "denied" -> Result(s0, FALSE, "Error starting process", 0)
               [] OTHER -> StartSpawned(s0, n, c, f, openOk, p, q)

(***************************************************************************)
(* stop(name): o is what signaling the live process leads to.              *)
(***************************************************************************)
\* Faulty variant: the reader list of the removed name is left registered
StopRemoveKeepsThreads(st, n) ==
    CleanupLogFile(CleanupStopEvent([st EXCEPT !.processes = Del(@, n)], n), n)

\* lines 319-320, 331-332, 344-345: del self.processes[name];
\* self._cleanup_streaming(name)
StopRemove(st, n) ==
    CleanupStreaming([st EXCEPT !.processes = Del(@, n)], n)

\* Faulty variant: the forced-kill path does not remove the entry
StopSignalForcedKeeps(st, n, o) ==
    LET p == st.processes[n]
        dead == [st EXCEPT !.alive = @ \ {p}]
    IN  CASE o = "graceful" ->
               Result(StopRemove(dead, n), TRUE, "stopped successfully", 0)
          [] o = "forced" ->
               Result(CleanupStreaming(dead, n), TRUE, "force stopped", 0)
          [] o = "stuck" ->
               Result(CleanupStreaming(st, n), TRUE, "force stopped", 0)
          [] OTHER ->
               Result(st, FALSE, "Error stopping process", 0)

\* Faulty variant: the error path removes the entry and cleans up
StopSignalErrorRemoves(st, n, o) ==
    LET p == st.processes[n]
        dead == [st EXCEPT !.alive = @ \ {p}]
    IN  CASE o = "graceful" ->
               Result(StopRemove(dead, n), TRUE, "stopped successfully", 0)
          [] o = "forced" ->
               Result(StopRemove(dead, n), TRUE, "force stopped", 0)
          [] o = "stuck" ->
               Result(StopRemove(st, n), TRUE, "force stopped", 0)
          [] OTHER ->
               Result(StopRemove(st, n), FALSE, "Error stopping process", 0)

StopSignal(st, n, o) ==
    LET p == st.processes[n]
        dead == [st EXCEPT !.alive = @ \ {p}]
    IN  CASE o = "graceful" ->
               Result(StopRemove(dead, n), TRUE, "stopped successfully", 0)
          [] o = "forced" ->
               Result(StopRemove(dead, n), TRUE, "force stopped", 0)
          [] o = "stuck" ->
               Result(StopRemove(st, n), TRUE, "force stopped", 0)
          [] OTHER ->
               Result(st, FALSE, "Error stopping process", 0)

\* Faulty variant: an entry found dead is reported and kept
StopDeadKeeps(st, n, o) ==
    IF n \notin DOMAIN st.processes
    THEN Result(st, FALSE, "not found", 0)
    ELSE IF ~Poll(st, st.processes[n])
         THEN Result(st, FALSE, "was not running", 0)
         ELSE StopSignal(st, n, o)

\* Faulty variant: a name with no entry is handled like one found dead
StopUntrackedAsDead(st, n, o) ==
    IF n \notin DOMAIN st.processes \/ ~Poll(st, st.processes[n])
    THEN Result(StopRemove(st, n), FALSE, "was not running", 0)
    ELSE StopSignal(st, n, o)

\* Faulty variant: the forced kill is sent whether or not the wait timed out
StopSignalsAlwaysKill(st, n, o) ==
    IF n \notin DOMAIN st.processes \/ ~Poll(st, st.processes[n])
    THEN <<>>
    ELSE IF o = "nogroups" THEN <<>> ELSE <<"SIGTERM", "SIGKILL">>

\* The os.killpg calls stop makes, in order (lines 327, 340): the SIGTERM
\* call raises under "error" and cannot be made under "nogroups"; the
\* SIGKILL call is reached only through TimeoutExpired ("forced", "stuck")
StopSignals(st, n, o) ==
    IF n \notin DOMAIN st.processes \/ ~Poll(st, st.processes[n])
    THEN <<>>
    ELSE CASE o = "graceful" -> <<"SIGTERM">>
           [] o \in {"forced", "stuck"} -> <<"SIGTERM", "SIGKILL">>
           [] o = "error" -> <<"SIGTERM">>
           [] OTHER -> <<>>

Stop(st, n, o) ==
    IF n \notin DOMAIN st.processes
    THEN Result(st, FALSE, "not found", 0)
    ELSE IF ~Poll(st, st.processes[n])
         THEN Result(StopRemove(st, n), FALSE, "was not running", 0)
         ELSE StopSignal(st, n, o)

(***************************************************************************)
(* is_running(name), get_all_statuses(player_names)                        *)
(***************************************************************************)
\* Faulty variant: the process is not polled
IsRunningTracked(st, n) ==
    n \in DOMAIN st.processes

IsRunning(st, n) ==
    IF n \notin DOMAIN st.processes THEN FALSE ELSE Poll(st, st.processes[n])

GetAllStatuses(st, names) == [n \in names |-> IsRunning(st, n)]

\* get_process(name), lines 385-397: the Popen object (its PID) if found and
\* running, None otherwise
NoProcess == [found |-> FALSE]

GetProcess(st, n) ==
    IF n \in DOMAIN st.processes /\ Poll(st, st.processes[n])
    THEN [found |-> TRUE, pid |-> st.processes[n]]
    ELSE NoProcess

(***************************************************************************)
(* cleanup_dead_processes()                                                *)
(***************************************************************************)
RECURSIVE CleanupEach(_, _)
CleanupEach(st, todo) ==
    IF todo = {} THEN st
    ELSE LET n == CHOOSE x \in todo : TRUE
         IN  CleanupEach(IF ~Poll(st, st.processes[n])
                         THEN StopRemove(st, n) ELSE st,
                         todo \ {n})

\* Faulty variant: the streaming resources of a dead entry are left
CleanupDeadProcessesKeepsStreaming(st) ==
    [st |-> [st EXCEPT !.processes =
                [n \in {x \in DOMAIN st.processes : Poll(st, st.processes[x])}
                    |-> st.processes[n]]],
     cleaned |-> {n \in DOMAIN st.processes : ~Poll(st, st.processes[n])}]

CleanupDeadProcesses(st) ==
    [st |-> CleanupEach(st, DOMAIN st.processes),
     cleaned |-> {n \in DOMAIN st.processes : ~Poll(st, st.processes[n])}]

(***************************************************************************)
(* stop_all(): o[n] is what signaling n's process leads to.                *)
(***************************************************************************)
RECURSIVE StopEach(_, _, _)
StopEach(st, todo, o) ==
    IF todo = {} THEN [st |-> st, stopped |-> 0]
    ELSE LET n == CHOOSE x \in todo : TRUE
             r == Stop(st, n, o[n])
             rest == StopEach(r.st, todo \ {n}, o)
         IN  [st |-> rest.st,
              stopped |-> rest.stopped + (IF r.ok THEN 1 ELSE 0)]

\* Faulty variant: every entry is counted, whatever its stop returned
StopAllCountsTracked(st, o) ==
    [st |-> StopEach(st, DOMAIN st.processes, o).st,
     stopped |-> Cardinality(DOMAIN st.processes)]

StopAll(st, o) == StopEach(st, DOMAIN st.processes, o)

(***************************************************************************)
(* The state after ProcessManager.__init__.                                *)
(***************************************************************************)
NoCall == [op |-> "none"]

EmptyState ==
    [processes |-> EmptyDict, _stream_threads |-> EmptyDict,
     _log_files |-> EmptyDict, _stop_events |-> EmptyDict,
     alive |-> {}, eventSet |-> {}, joined |-> {},
     closeCalls |-> [p \in PIDs |-> 0]]

\* The locals of a call: the entry of its name when it was called (pre),
\* what it was given and what it has seen so far, and its result.
\* No reader thread is followed.
NoReaders == [cleanup |-> "none"]

\* No process has been put in a group
NoGroups == <<>>

NoLocals ==
    [op |-> "none", pre |-> EmptyState, fb |-> FALSE, c |-> "serve",
     f |-> "serve", openOk |-> TRUE, o |-> "graceful", p |-> 0, q |-> 0,
     cur |-> 0, next |-> "return", ok |-> FALSE, msg |-> ""]

Init ==
    /\ processes = EmptyDict
    /\ _stream_threads = EmptyDict
    /\ _log_files = EmptyDict
    /\ _stop_events = EmptyDict
    /\ alive = {}
    /\ eventSet = {}
    /\ joined = {}
    /\ closeCalls = [p \in PIDs |-> 0]
    /\ nextPid = 1
    /\ setsMade = {}
    /\ last = NoCall
    /\ pc = [n \in Names |-> "idle"]
    /\ loc = [n \in Names |-> NoLocals]
    /\ readers = NoReaders
    /\ pgid = NoGroups

(***************************************************************************)
(* The calls, each run to completion.  last records the call, its inputs   *)
(* and its result.                                                         *)
(***************************************************************************)
\* The streaming resources registered under n: the process they were made
\* for and whether a log file was opened for them.
SetRegistered(st, n) ==
    IF n \in DOMAIN st._stop_events
    THEN {<<n, st._stop_events[n], n \in DOMAIN st._log_files>>}
    ELSE {}

\* The environment decides only what a call consults: the inputs a call
\* never reads are fixed (a fallback that is not run is just given, "serve",
\* or not given).
StartConsults(st, n, c, f, openOk) ==
    LET spawns == ~StartAlreadyRunning(st, n)
        fallback == spawns /\ c = "crash" /\ f # NoCommand
    IN  /\ ~spawns => c = "serve"
        /\ ~(spawns /\ c = "crash") => f \in {NoCommand, "serve"}
        /\ ~((spawns /\ c = "serve") \/ (fallback /\ f = "serve")) => openOk

CallStart(n, c, f, openOk) ==
    LET r == Start(State, n, c, f, openOk, nextPid, nextPid + 1)
    IN  /\ StartConsults(State, n, c, f, openOk)
        /\ nextPid + r.spawned - 1 <= MaxPid
        /\ Install(r.st)
        /\ nextPid' = nextPid + r.spawned
        /\ setsMade' = setsMade \cup SetRegistered(r.st, n)
        /\ UNCHANGED <<pc, loc, readers, pgid>>
        /\ last' = [op |-> "start", name |-> n, c |-> c, f |-> f,
                    openOk |-> openOk, ok |-> r.ok, msg |-> r.msg]

StopConsults(st, n, o) == ~IsRunning(st, n) => o = "graceful"

CallStop(n, o) ==
    LET r == Stop(State, n, o)
    IN  /\ StopConsults(State, n, o)
        /\ Install(r.st)
        /\ UNCHANGED <<nextPid, setsMade, readers, pgid, pc, loc>>
        /\ last' = [op |-> "stop", name |-> n, o |-> o,
                    ok |-> r.ok, msg |-> r.msg,
                    sent |-> StopSignals(State, n, o)]

CallIsRunning(n) ==
    /\ last' = [op |-> "is_running", name |-> n,
                value |-> IsRunning(State, n)]
    /\ UNCHANGED <<processes, _stream_threads, _log_files, _stop_events,
                   alive, eventSet, joined, closeCalls, nextPid, setsMade,
                   readers, pgid, pc, loc>>

CallGetAllStatuses(names) ==
    /\ last' = [op |-> "get_all_statuses", names |-> names,
                value |-> GetAllStatuses(State, names)]
    /\ UNCHANGED <<processes, _stream_threads, _log_files, _stop_events,
                   alive, eventSet, joined, closeCalls, nextPid, setsMade,
                   readers, pgid, pc, loc>>

\* Faulty variant: the query drops an entry it finds dead
CallGetProcessDropsDead(n) ==
    /\ last' = [op |-> "get_process", name |-> n,
                value |-> GetProcess(State, n)]
    /\ Install(IF n \in DOMAIN processes /\ ~Poll(State, processes[n])
               THEN StopRemove(State, n) ELSE State)
    /\ UNCHANGED <<nextPid, setsMade, readers, pgid, pc, loc>>

CallGetProcess(n) ==
    /\ last' = [op |-> "get_process", name |-> n,
                value |-> GetProcess(State, n)]
    /\ UNCHANGED <<Managed, setsMade, readers, pgid, pc, loc>>

CallCleanupDeadProcesses ==
    LET r == CleanupDeadProcesses(State)
    IN  /\ Install(r.st)
        /\ UNCHANGED <<nextPid, setsMade, readers, pgid, pc, loc>>
        /\ last' = [op |-> "cleanup_dead_processes", value |-> r.cleaned]

CallStopAll(o) ==
    LET r == StopAll(State, o)
    IN  /\ \A n \in DOMAIN processes : StopConsults(State, n, o[n])
        /\ Install(r.st)
        /\ UNCHANGED <<nextPid, setsMade, readers, pgid, pc, loc>>
        /\ last' = [op |-> "stop_all", tracked |-> DOMAIN processes,
                    value |-> r.stopped]

(***************************************************************************)
(* The environment: a subprocess exits on its own.                         *)
(***************************************************************************)
Exit(p) ==
    /\ p \in alive
    /\ alive' = alive \ {p}
    /\ last' = NoCall
    /\ UNCHANGED <<processes, _stream_threads, _log_files, _stop_events,
                   eventSet, joined, closeCalls, nextPid, setsMade, readers,
                   pgid, pc, loc>>

Next ==
    \/ \E n \in Names, c \in Behaviours, f \in Behaviours \cup {NoCommand},
          openOk \in BOOLEAN : CallStart(n, c, f, openOk)
    \/ \E n \in Names, o \in StopOutcomes : CallStop(n, o)
    \/ \E n \in Names : CallIsRunning(n)
    \/ \E names \in SUBSET Names : CallGetAllStatuses(names)
    \/ \E n \in Names : CallGetProcess(n)
    \/ CallCleanupDeadProcesses
    \/ \E o \in [DOMAIN processes -> StopOutcomes] : CallStopAll(o)
    \/ \E p \in PIDs : Exit(p)

Spec == Init /\ [][Next]_vars

(***************************************************************************)
(* The calls start, stop and is_running on different names, interleaved:   *)
(* one control path per name, each call taken one statement that touches   *)
(* the manager or the operating system at a time.  A subprocess that exits *)
(* does so by the environment's Exit; a call sees it when it polls.        *)
(***************************************************************************)
Goto(n, to, l) ==
    /\ pc' = [pc EXCEPT ![n] = to]
    /\ loc' = [loc EXCEPT ![n] = l]

Return(n, l, ok, msg) ==
    Goto(n, "idle", [l EXCEPT !.ok = ok, !.msg = msg])

\* The PIDs the entry of n refers to, and the state with only that entry.
OwnPids(st, n) ==
    (IF n \in DOMAIN st.processes THEN {st.processes[n]} ELSE {})
    \cup (IF n \in DOMAIN st._stop_events THEN {st._stop_events[n]} ELSE {})
    \cup (IF n \in DOMAIN st._stream_threads
          THEN {t[1] : t \in st._stream_threads[n]} ELSE {})
    \cup (IF n \in DOMAIN st._log_files THEN {st._log_files[n]} ELSE {})

Only(d, n) == [x \in (DOMAIN d) \cap {n} |-> d[x]]

SoloState(st, n) ==
    LET own == OwnPids(st, n)
    IN  [processes |-> Only(st.processes, n),
         _stream_threads |-> Only(st._stream_threads, n),
         _log_files |-> Only(st._log_files, n),
         _stop_events |-> Only(st._stop_events, n),
         alive |-> st.alive \cap own,
         eventSet |-> st.eventSet \cap own,
         joined |-> {t \in st.joined : t[1] \in own},
         closeCalls |-> [x \in PIDs |->
                            IF x \in own THEN st.closeCalls[x] ELSE 0]]

Begin(n, op) == [NoLocals EXCEPT !.op = op, !.pre = SoloState(State, n)]

\* start: line 196
T_Start(n, fb) ==
    /\ pc[n] = "idle"
    /\ LET l == [Begin(n, "start") EXCEPT !.fb = fb]
       IN  IF StartAlreadyRunning(State, n)
           THEN Return(n, l, FALSE, "already running")
           ELSE Goto(n, "cleanup_event", [l EXCEPT !.next = "popen"])
    /\ UNCHANGED <<Managed, setsMade, readers, pgid, last>>

\* _cleanup_streaming: lines 505-507, 510-513, 516-519
T_CleanupEvent(n) ==
    /\ pc[n] = "cleanup_event"
    /\ Install(CleanupStopEvent(State, n))
    /\ Goto(n, "cleanup_threads", loc[n])
    /\ UNCHANGED <<nextPid, setsMade, readers, pgid, last>>

T_CleanupThreads(n) ==
    /\ pc[n] = "cleanup_threads"
    /\ Install(CleanupThreads(State, n))
    /\ Goto(n, "cleanup_file", loc[n])
    /\ UNCHANGED <<nextPid, setsMade, readers, pgid, last>>

T_CleanupFile(n) ==
    /\ pc[n] = "cleanup_file"
    /\ Install(CleanupLogFile(State, n))
    /\ Goto(n, IF loc[n].next = "return" THEN "idle" ELSE loc[n].next, loc[n])
    /\ UNCHANGED <<nextPid, setsMade, readers, pgid, last>>

\* start: lines 209-214, 243-251; b: whether Popen raises
T_Popen(n, b) ==
    /\ pc[n] = "popen"
    /\ IF b = "missing"
       THEN /\ Return(n, [loc[n] EXCEPT !.c = b], FALSE, "Binary not found")
            /\ UNCHANGED Managed
       ELSE IF b = "denied"
       THEN /\ Return(n, [loc[n] EXCEPT !.c = b], FALSE,
                      "Error starting process")
            /\ UNCHANGED Managed
       ELSE /\ nextPid <= MaxPid
            /\ Install(Popen(State, nextPid))
            /\ nextPid' = nextPid + 1
            /\ Goto(n, "register", [loc[n] EXCEPT !.p = nextPid])
    /\ UNCHANGED <<setsMade, readers, pgid, last>>

\* start: line 216
T_Register(n) ==
    /\ pc[n] = "register"
    /\ Install([State EXCEPT !.processes = Put(@, n, loc[n].p)])
    /\ Goto(n, "poll", loc[n])
    /\ UNCHANGED <<nextPid, setsMade, readers, pgid, last>>

\* start: lines 219-234
T_Poll(n) ==
    /\ pc[n] = "poll"
    /\ IF Poll(State, loc[n].p)
       THEN Goto(n, "setup_event",
                 [loc[n] EXCEPT !.c = "serve", !.cur = loc[n].p])
       ELSE IF loc[n].fb
       THEN Goto(n, "fb_popen", [loc[n] EXCEPT !.c = "crash"])
       ELSE Return(n, [loc[n] EXCEPT !.c = "crash"], FALSE,
                   "Process failed to start")
    /\ UNCHANGED <<Managed, setsMade, readers, pgid, last>>

\* _start_fallback: lines 268-273, 291-294
T_FbPopen(n, b) ==
    /\ pc[n] = "fb_popen"
    /\ IF b \in {"missing", "denied"}
       THEN /\ Return(n, [loc[n] EXCEPT !.f = b], FALSE,
                      "Error starting fallback")
            /\ UNCHANGED Managed
       ELSE /\ nextPid <= MaxPid
            /\ Install(Popen(State, nextPid))
            /\ nextPid' = nextPid + 1
            /\ Goto(n, "fb_register", [loc[n] EXCEPT !.q = nextPid])
    /\ UNCHANGED <<setsMade, readers, pgid, last>>

\* _start_fallback: line 275
T_FbRegister(n) ==
    /\ pc[n] = "fb_register"
    /\ Install([State EXCEPT !.processes = Put(@, n, loc[n].q)])
    /\ Goto(n, "fb_poll", loc[n])
    /\ UNCHANGED <<nextPid, setsMade, readers, pgid, last>>

\* _start_fallback: lines 276-282
T_FbPoll(n) ==
    /\ pc[n] = "fb_poll"
    /\ IF Poll(State, loc[n].q)
       THEN Goto(n, "setup_event",
                 [loc[n] EXCEPT !.f = "serve", !.cur = loc[n].q])
       ELSE Return(n, [loc[n] EXCEPT !.f = "crash"], FALSE,
                   "Fallback also failed")
    /\ UNCHANGED <<Managed, setsMade, readers, pgid, last>>

\* _setup_streaming: lines 455-456, 459-466, 469-491
T_SetupEvent(n) ==
    /\ pc[n] = "setup_event"
    /\ Install(SetupStopEvent(State, n, loc[n].cur))
    /\ Goto(n, "setup_file", loc[n])
    /\ UNCHANGED <<nextPid, setsMade, readers, pgid, last>>

T_SetupFile(n, openOk) ==
    /\ pc[n] = "setup_file"
    /\ Install(SetupLogFile(State, n, loc[n].cur, openOk))
    /\ Goto(n, "setup_threads", [loc[n] EXCEPT !.openOk = openOk])
    /\ UNCHANGED <<nextPid, setsMade, readers, pgid, last>>

T_SetupThreads(n) ==
    /\ pc[n] = "setup_threads"
    /\ Install(SetupThreads(State, n, loc[n].cur))
    /\ Return(n, loc[n], TRUE,
              IF loc[n].cur = loc[n].q
              THEN "started with fallback configuration"
              ELSE "started successfully")
    /\ UNCHANGED <<nextPid, setsMade, readers, pgid, last>>

\* stop: lines 313-321
T_Stop(n) ==
    /\ pc[n] = "idle"
    /\ LET l == Begin(n, "stop")
       IN  IF n \notin DOMAIN processes
           THEN Return(n, l, FALSE, "not found")
           ELSE IF ~Poll(State, processes[n])
           THEN Goto(n, "stop_del",
                     [l EXCEPT !.ok = FALSE, !.msg = "was not running"])
           ELSE Goto(n, "signal", l)
    /\ UNCHANGED <<Managed, setsMade, readers, pgid, last>>

\* stop: lines 327-330, 337-343, 349-352; o: what signaling leads to
T_Signal(n, o) ==
    /\ pc[n] = "signal"
    /\ LET r == StopSignal(State, n, o)
           l == [loc[n] EXCEPT !.o = o, !.ok = r.ok, !.msg = r.msg]
       IN  IF o \in {"error", "nogroups"}
           THEN Return(n, l, r.ok, r.msg) /\ UNCHANGED Managed
           ELSE /\ alive' = IF o = "stuck" THEN alive
                            ELSE alive \ {processes[n]}
                /\ Goto(n, "stop_del", l)
                /\ UNCHANGED <<processes, _stream_threads, _log_files,
                               _stop_events, eventSet, joined, closeCalls,
                               nextPid>>
    /\ UNCHANGED <<setsMade, readers, pgid, last>>

\* stop: lines 319, 331, 344
T_StopDel(n) ==
    /\ pc[n] = "stop_del"
    /\ Install([State EXCEPT !.processes = Del(@, n)])
    /\ Goto(n, "cleanup_event", [loc[n] EXCEPT !.next = "return"])
    /\ UNCHANGED <<nextPid, setsMade, readers, pgid, last>>

\* is_running: lines 364-368
T_IsRunning(n) ==
    /\ pc[n] = "idle"
    /\ Return(n, Begin(n, "is_running"), IsRunning(State, n), "is_running")
    /\ UNCHANGED <<Managed, setsMade, readers, pgid, last>>

T_Exit(p) ==
    /\ p \in alive
    /\ alive' = alive \ {p}
    /\ UNCHANGED <<processes, _stream_threads, _log_files, _stop_events,
                   eventSet, joined, closeCalls, nextPid, setsMade, readers,
                   pgid, last, pc, loc>>

ConcNext ==
    \/ \E n \in Names, fb \in BOOLEAN : T_Start(n, fb)
    \/ \E n \in Names : T_CleanupEvent(n)
    \/ \E n \in Names : T_CleanupThreads(n)
    \/ \E n \in Names : T_CleanupFile(n)
    \/ \E n \in Names, b \in {"missing", "denied", "ok"} : T_Popen(n, b)
    \/ \E n \in Names : T_Register(n)
    \/ \E n \in Names : T_Poll(n)
    \/ \E n \in Names, b \in {"missing", "denied", "ok"} : T_FbPopen(n, b)
    \/ \E n \in Names : T_FbRegister(n)
    \/ \E n \in Names : T_FbPoll(n)
    \/ \E n \in Names : T_SetupEvent(n)
    \/ \E n \in Names, openOk \in BOOLEAN : T_SetupFile(n, openOk)
    \/ \E n \in Names : T_SetupThreads(n)
    \/ \E n \in Names : T_Stop(n)
    \/ \E n \in Names, o \in StopOutcomes : T_Signal(n, o)
    \/ \E n \in Names : T_StopDel(n)
    \/ \E n \in Names : T_IsRunning(n)
    \/ \E p \in PIDs : T_Exit(p)

ConcSpec == Init /\ [][ConcNext]_vars


(***************************************************************************)
(* The providers of app/providers: SqueezeliteProvider, SnapcastProvider   *)
(* and SendspinProvider.  Their methods are functions of the configuration *)
(* they are given.  A str is a string, a list[str] a sequence of strings,  *)
(* a dict a function on the set of its keys.                               *)
(***************************************************************************)
Providers == {"squeezelite", "snapcast", "sendspin"}

\* prefix in s[:len(prefix)], i.e. s.startswith(prefix)
StartsWith(s, prefix) ==
    Len(s) >= Len(prefix) /\ SubSeq(s, 1, Len(prefix)) = prefix

\* c in s, for a character c
Contains(s, c) == \E i \in 1..Len(s) : SubSeq(s, i, i) = c

\* s[:k]
Truncate(s, k) == IF Len(s) <= k THEN s ELSE SubSeq(s, 1, k)

\* c * k
RECURSIVE Repeat(_, _)
Repeat(c, k) == IF k = 0 THEN "" ELSE c \o Repeat(c, k - 1)

\* str.lower() and str.replace(" ", "-"), character by character
LowerChar(c) ==
    LET upper == "ABCDEFGHIJKLMNOPQRSTUVWXYZ"
        lower == "abcdefghijklmnopqrstuvwxyz"
    IN  IF Contains(upper, c)
        THEN LET i == CHOOSE j \in 1..Len(upper) : SubSeq(upper, j, j) = c
             IN  SubSeq(lower, i, i)
        ELSE c

RECURSIVE SafeName(_)
SafeName(s) ==
    IF s = "" THEN ""
    ELSE LET c == LowerChar(SubSeq(s, 1, 1))
         IN  (IF c = " " THEN "-" ELSE c) \o SafeName(SubSeq(s, 2, Len(s)))

\* f"{b:x}" for one hex digit, f"{b:02x}" for an octet
HexDigit(d) == SubSeq("0123456789abcdef", d + 1, d + 1)
Hex2(b) == HexDigit(b \div 16) \o HexDigit(b % 16)

\* a | b and a & b on non-negative integers, bit by bit
RECURSIVE BitOr(_, _)
BitOr(a, b) ==
    IF a = 0 THEN b
    ELSE IF b = 0 THEN a
    ELSE (IF a % 2 = 1 \/ b % 2 = 1 THEN 1 ELSE 0)
         + 2 * BitOr(a \div 2, b \div 2)

RECURSIVE BitAnd(_, _)
BitAnd(a, b) ==
    IF a = 0 \/ b = 0 THEN 0
    ELSE (IF a % 2 = 1 /\ b % 2 = 1 THEN 1 ELSE 0)
         + 2 * BitAnd(a \div 2, b \div 2)

\* str(n) for an integer
RECURSIVE DecimalDigits(_)
DecimalDigits(n) ==
    IF n < 10 THEN HexDigit(n)
    ELSE DecimalDigits(n \div 10) \o HexDigit(n % 10)

IntToStr(n) == IF n < 0 THEN "-" \o DecimalDigits(0 - n) ELSE DecimalDigits(n)

\* The character "\x00", which a TLA+ string cannot hold, is written as the
\* form feed; no other string of the model holds a form feed.
NUL == "\f"

\* The longest name validate_config accepts.
MaxNameLength == 64

LongName == Repeat("a", MaxNameLength)
TooLongName == Repeat("a", MaxNameLength + 1)
TooLongBadName == LongName \o "/"
NulName == "Bad" \o NUL \o "Name"
WideName == "Upstairs Guest Bedroom Left"

\* The player names the providers are tried on, and for each the first six
\* bytes of hashlib.md5(name.encode()).digest().
PlayerNames ==
    {"", "Kitchen", "Living Room", "Bedroom", "Office", "A", "B", "Den",
     "Hall", "Patio", "Attic", "Test"}

OtherNames ==
    {LongName, TooLongName, TooLongBadName, "Bad/Name", "Bad\\Name", NulName,
     WideName}

Md5Digest(name) ==
    CASE name = "" -> <<212, 29, 140, 217, 143, 0>>
      [] name = "Kitchen" -> <<51, 250, 0, 166, 111, 46>>
      [] name = "Living Room" -> <<244, 91, 14, 106, 236, 22>>
      [] name = "Bedroom" -> <<72, 64, 210, 85, 91, 213>>
      [] name = "Office" -> <<223, 129, 65, 53, 101, 42>>
      [] name = "A" -> <<127, 197, 98, 112, 231, 167>>
      [] name = "B" -> <<157, 94, 214, 120, 254, 87>>
      [] name = "Den" -> <<230, 73, 0, 118, 40, 124>>
      [] name = "Hall" -> <<117, 0, 47, 228, 132, 66>>
      [] name = "Patio" -> <<194, 244, 68, 53, 102, 142>>
      [] name = "Attic" -> <<137, 20, 250, 73, 38, 100>>
      [] name = "Test" -> <<12, 188, 102, 17, 245, 84>>
      [] name = LongName -> <<1, 72, 66, 212, 128, 181>>
      [] name = TooLongName -> <<199, 67, 164, 94, 13, 46>>
      [] name = TooLongBadName -> <<186, 2, 167, 237, 169, 71>>
      [] name = "Bad/Name" -> <<131, 169, 240, 255, 23, 172>>
      [] name = "Bad\\Name" -> <<4, 131, 67, 62, 164, 211>>
      [] name = NulName -> <<92, 152, 71, 255, 109, 145>>
      [] name = WideName -> <<225, 87, 59, 70, 6, 44>>

\* hashlib.md5(name.encode()).hexdigest()[:k], k even and at most 12
RECURSIVE HexOf(_)
HexOf(bytes) ==
    IF bytes = <<>> THEN "" ELSE Hex2(Head(bytes)) \o HexOf(Tail(bytes))

Md5Hex(name, k) == HexOf(SubSeq(Md5Digest(name), 1, k \div 2))

(***************************************************************************)
(* Values of the numeric configuration fields (latency, delay_ms), which   *)
(* a caller may give as None, an int, a str, a float or something else     *)
(* again (a list).  A float or list is kept as its str().                  *)
(***************************************************************************)
NoneValue == [kind |-> "none", int |-> 0, text |-> "None"]
IntValue(n) == [kind |-> "int", int |-> n, text |-> IntToStr(n)]
StrValue(s) == [kind |-> "str", int |-> 0, text |-> s]
FloatValue(s) == [kind |-> "float", int |-> 0, text |-> s]
ListValue == [kind |-> "list", int |-> 0, text |-> "[]"]

\* bool(v)
Truthy(v) ==
    CASE v.kind = "none" -> FALSE
      [] v.kind = "int" -> v.int # 0
      [] v.kind = "str" -> v.text # ""
      [] v.kind = "float" -> v.text \notin {"0.0", "-0.0"}
      [] v.kind = "list" -> FALSE

\* v != 0
NotZero(v) ==
    CASE v.kind = "int" -> v.int # 0
      [] v.kind = "float" -> v.text \notin {"0.0", "-0.0"}
      [] OTHER -> TRUE

\* str(v)
Str(v) == v.text

\* s.strip(), for the blank
RECURSIVE LStrip(_)
LStrip(s) ==
    IF s # "" /\ SubSeq(s, 1, 1) = " " THEN LStrip(SubSeq(s, 2, Len(s))) ELSE s

RECURSIVE RStrip(_)
RStrip(s) ==
    IF s # "" /\ SubSeq(s, Len(s), Len(s)) = " "
    THEN RStrip(SubSeq(s, 1, Len(s) - 1))
    ELSE s

\* Whether int(s) accepts the str s: blanks around an optional sign and
\* decimal digits, single underscores allowed between digits.
IsIntLiteral(s) ==
    LET t == RStrip(LStrip(s))
        u == IF t # "" /\ SubSeq(t, 1, 1) \in {"+", "-"}
             THEN SubSeq(t, 2, Len(t))
             ELSE t
        IsDigit(c) == Contains("0123456789", c)
    IN  /\ u # ""
        /\ IsDigit(SubSeq(u, 1, 1))
        /\ IsDigit(SubSeq(u, Len(u), Len(u)))
        /\ \A i \in 1..Len(u) :
              \/ IsDigit(SubSeq(u, i, i))
              \/ /\ SubSeq(u, i, i) = "_"
                 /\ IsDigit(SubSeq(u, i + 1, i + 1))

\* What int(v) does: returns ("ok") or raises the exception named.
IntOutcome(v) ==
    CASE v.kind = "int" -> "ok"
      [] v.kind = "str" -> IF IsIntLiteral(v.text) THEN "ok" ELSE "ValueError"
      [] v.kind = "float" ->
            IF v.text \in {"inf", "-inf"} THEN "OverflowError"
            ELSE IF v.text = "nan" THEN "ValueError"
            ELSE "ok"
      [] OTHER -> "TypeError"

(***************************************************************************)
(* Configurations.  config.get(k) is falsy for a str field when the key is *)
(* absent or holds "".                                                     *)
(***************************************************************************)
Has(config, k) == k \in DOMAIN config

Get(config, k, default) == IF Has(config, k) THEN config[k] ELSE default

GetTruthy(config, k) == Has(config, k) /\ config[k] # ""

\* What a method returns: a command, None, or an exception raised.
ReturnCommand(cmd) == [raised |-> "", none |-> FALSE, cmd |-> cmd]
ReturnNone == [raised |-> "", none |-> TRUE, cmd |-> <<>>]
Raise(e) == [raised |-> e, none |-> FALSE, cmd |-> <<>>]

(***************************************************************************)
(* The environment module the providers import is not part of the source   *)
(* at hand.  get_squeezelite_output_device(device) translates the device   *)
(* for the platform: the device itself on plain ALSA, the PulseAudio       *)
(* output elsewhere; get_player_backend_for_snapcast() names the audio     *)
(* backend of the platform.                                                *)
(***************************************************************************)
SqueezeliteOutputDevices(device) == {device, "pulse"}

SnapcastPlayerBackends == {"alsa", "pulse"}

(***************************************************************************)
(* Identifiers derived from the player name.                               *)
(***************************************************************************)
\* SnapcastProvider.generate_host_id
GenerateHostId(name) ==
    "snapcast" \o "-" \o Truncate(SafeName(name), 20) \o "-" \o Md5Hex(name, 12)

\* SendspinProvider._generate_client_id
GenerateClientId(name) ==
    "sendspin" \o "-" \o Truncate(SafeName(name), 20) \o "-" \o Md5Hex(name, 8)

\* ":".join(f"{b:02x}" for b in mac_bytes)
RECURSIVE JoinOctets(_)
JoinOctets(bytes) ==
    IF Len(bytes) = 1 THEN Hex2(Head(bytes))
    ELSE Hex2(Head(bytes)) \o ":" \o JoinOctets(Tail(bytes))

\* Faulty variant: the multicast bit is not cleared
FirstOctetKeepsMulticast(b) == BitOr(b, 2)

\* mac_bytes[0] = (mac_bytes[0] | 0x02) & 0xFE
FirstOctet(b) == BitAnd(BitOr(b, 2), 254)

\* SqueezeliteProvider.generate_mac_address
GenerateMacAddress(name) ==
    LET mac_bytes == Md5Digest(name)
    IN  JoinOctets(<<FirstOctet(mac_bytes[1])>> \o Tail(mac_bytes))

(***************************************************************************)
(* build_command.  player["k"] raises KeyError when the key is absent.     *)
(***************************************************************************)
\* SqueezeliteProvider.build_command; output_device is what
\* get_squeezelite_output_device returned for player["device"]
SqueezeliteBuildCommand(player, output_device) ==
    IF ~Has(player, "device") \/ ~Has(player, "name")
       \/ ~Has(player, "mac_address")
    THEN Raise("KeyError")
    ELSE ReturnCommand(
           <<"squeezelite", "-n", player.name, "-o", output_device,
             "-m", player.mac_address>>
           \o (IF GetTruthy(player, "server_ip")
               THEN <<"-s", player.server_ip>> ELSE <<>>)
           \o <<"-a", "80", "-b", "500:2000", "-C", "5">>
           \o (IF player.device = "null" THEN <<"-r", "44100">> ELSE <<>>))

\* Faulty variant: --soundcard is given for "default" too
SnapcastBuildCommandAlwaysSoundcard(player, player_backend) ==
    LET device == Get(player, "device", "default")
        latency == Get(player, "latency", IntValue(0))
    IN  ReturnCommand(
           <<"snapclient">>
           \o (IF GetTruthy(player, "server_ip")
               THEN <<"--host", player.server_ip>> ELSE <<>>)
           \o (IF device # "" THEN <<"--soundcard", device>> ELSE <<>>)
           \o (IF GetTruthy(player, "host_id")
               THEN <<"--hostID", player.host_id>> ELSE <<>>)
           \o (IF Truthy(latency) /\ NotZero(latency)
               THEN <<"--latency", Str(latency)>> ELSE <<>>)
           \o <<"--player", player_backend>>
           \o <<"--logsink", "stderr">>)

\* SnapcastProvider.build_command; player_backend is what
\* get_player_backend_for_snapcast returned
SnapcastBuildCommand(player, player_backend) ==
    LET device == Get(player, "device", "default")
        latency == Get(player, "latency", IntValue(0))
    IN  ReturnCommand(
           <<"snapclient">>
           \o (IF GetTruthy(player, "server_ip")
               THEN <<"--host", player.server_ip>> ELSE <<>>)
           \o (IF device # "" /\ device # "default"
               THEN <<"--soundcard", device>> ELSE <<>>)
           \o (IF GetTruthy(player, "host_id")
               THEN <<"--hostID", player.host_id>> ELSE <<>>)
           \o (IF Truthy(latency) /\ NotZero(latency)
               THEN <<"--latency", Str(latency)>> ELSE <<>>)
           \o <<"--player", player_backend>>
           \o <<"--logsink", "stderr">>)

\* The device names SendspinProvider.build_command passes over
SendspinSkipsDevice(device) ==
    \/ StartsWith(device, "hw:") \/ StartsWith(device, "plughw:")
    \/ StartsWith(device, "alsa_output.") \/ StartsWith(device, "alsa_input.")

\* SendspinProvider.build_command
SendspinBuildCommand(player) ==
    IF ~Has(player, "name") THEN Raise("KeyError")
    ELSE LET device == Get(player, "device", "default")
             delay_ms == Get(player, "delay_ms", NoneValue)
         IN  ReturnCommand(
                <<"sendspin", "--headless", "--name", player.name, "--id",
                  Get(player, "client_id", GenerateClientId(player.name))>>
                \o (IF device # "" /\ device # "default" /\ device # "null"
                       /\ ~SendspinSkipsDevice(device)
                    THEN <<"--audio-device", device>> ELSE <<>>)
                \o (IF delay_ms.kind # "none" /\ NotZero(delay_ms)
                    THEN <<"--static-delay-ms", Str(delay_ms)>> ELSE <<>>)
                \o <<"--log-level", Get(player, "log_level", "INFO")>>)

\* provider.build_command(player, log_path), env being what the environment
\* module answered
BuildCommand(provider, player, env) ==
    CASE provider = "squeezelite" -> SqueezeliteBuildCommand(player, env)
      [] provider = "snapcast" -> SnapcastBuildCommand(player, env)
      [] provider = "sendspin" -> SendspinBuildCommand(player)

\* The answers the environment module can give a build_command
Environments(provider, player) ==
    CASE provider = "squeezelite" ->
            IF Has(player, "device") THEN SqueezeliteOutputDevices(player.device)
            ELSE {""}
      [] provider = "snapcast" -> SnapcastPlayerBackends
      [] provider = "sendspin" -> {""}

(***************************************************************************)
(* The configurations the providers are tried on.  Each family varies the  *)
(* fields some of the methods consult; every method is applied to every    *)
(* configuration.                                                          *)
(***************************************************************************)
Opt(k, vals) == {<<>>} \cup {k :> v : v \in vals}

Devices ==
    {"", "default", "null", "hw:1,0", "plughw:1,0", "alsa_output.usb",
     "alsa_input.usb", "USB Audio", "0"}

Identifiers ==
    {<<>>,
     [mac_address |-> "", host_id |-> "", client_id |-> ""],
     [mac_address |-> "aa:bb:cc:dd:ee:ff", host_id |-> "my-host",
      client_id |-> "my-client"]}

BuildConfigs ==
    {("name" :> "Living Room") @@ d @@ s @@ i @@ l @@ g :
        d \in Opt("device", Devices),
        s \in Opt("server_ip", {"", "192.168.1.10"}),
        i \in Identifiers,
        l \in {<<>>} \cup
              {[latency |-> v, delay_ms |-> v] :
                 v \in {NoneValue, IntValue(0), IntValue(250), IntValue(-50),
                        StrValue("250")}},
        g \in Opt("log_level", {"DEBUG"})}

NumericValues ==
    {NoneValue, IntValue(100), StrValue("100"), StrValue("abc"),
     FloatValue("inf"), ListValue}

ValidateConfigs ==
    {n @@ d @@ l :
        n \in Opt("name", {"", "A", LongName, TooLongName, TooLongBadName,
                           "Bad/Name", "Bad\\Name", NulName, WideName}),
        d \in Opt("device", {"", "default"}),
        l \in Opt("latency", NumericValues) \cup Opt("delay_ms", NumericValues)
              \cup {[latency |-> StrValue("abc"), delay_ms |-> IntValue(100)],
                    [latency |-> IntValue(100), delay_ms |-> StrValue("abc")]}}

PrepareConfigs ==
    {n @@ i @@ v @@ a @@ d :
        n \in Opt("name", {"", "Kitchen", WideName}),
        i \in Identifiers,
        v \in Opt("volume", {50}),
        a \in Opt("autostart", {TRUE}),
        d \in Opt("device", {"hw:1,0"})}

NameConfigs == {[name |-> n] : n \in PlayerNames \cup OtherNames}

Configs == BuildConfigs \cup ValidateConfigs \cup PrepareConfigs \cup NameConfigs

\* A caller holds a provider and a configuration; nothing is running.
ProviderInit ==
    /\ processes = EmptyDict
    /\ _stream_threads = EmptyDict
    /\ _log_files = EmptyDict
    /\ _stop_events = EmptyDict
    /\ alive = {}
    /\ eventSet = {}
    /\ joined = {}
    /\ closeCalls = [p \in PIDs |-> 0]
    /\ nextPid = 1
    /\ setsMade = {}
    /\ last \in {[op |-> "config", provider |-> p, config |-> c] :
                   p \in Providers, c \in Configs}
    /\ pc = [n \in Names |-> "idle"]
    /\ loc = [n \in Names |-> NoLocals]
    /\ readers = NoReaders
    /\ pgid = NoGroups

\* A provider method touches neither the manager nor the processes.
ProviderCall(op, value) ==
    /\ last.op = "config"
    /\ last' = [op |-> op, provider |-> last.provider,
                config |-> last.config, value |-> value]
    /\ UNCHANGED <<Managed, setsMade, readers, pgid, pc, loc>>

CallBuildCommand ==
    \E env \in Environments(last.provider, last.config) :
        ProviderCall("build_command",
                     [env |-> env,
                      result |-> BuildCommand(last.provider, last.config, env)])

(***************************************************************************)
(* build_fallback_command and supports_fallback.                           *)
(***************************************************************************)
\* SqueezeliteProvider.build_fallback_command
SqueezeliteBuildFallbackCommand(player) ==
    IF ~Has(player, "name") \/ ~Has(player, "mac_address")
    THEN Raise("KeyError")
    ELSE ReturnCommand(
           <<"squeezelite", "-n", player.name, "-o", "null",
             "-m", player.mac_address>>
           \o (IF GetTruthy(player, "server_ip")
               THEN <<"-s", player.server_ip>> ELSE <<>>)
           \o <<"-a", "80", "-b", "500:2000", "-C", "5", "-r", "44100">>)

\* Faulty variant: Snapcast answers with its primary command
BuildFallbackCommandOfPrimary(provider, player) ==
    CASE provider = "squeezelite" -> SqueezeliteBuildFallbackCommand(player)
      [] provider = "snapcast" -> SnapcastBuildCommand(player, "alsa")
      [] provider = "sendspin" -> ReturnNone

\* provider.build_fallback_command(player, log_path)
BuildFallbackCommand(provider, player) ==
    CASE provider = "squeezelite" -> SqueezeliteBuildFallbackCommand(player)
      [] provider = "snapcast" -> ReturnNone
      [] provider = "sendspin" -> ReturnNone

\* provider.supports_fallback()
SupportsFallback(provider) == provider = "squeezelite"

(***************************************************************************)
(* validate_config: (ok, message), or the exception it raises.             *)
(***************************************************************************)
Valid == [raised |-> "", ok |-> TRUE, msg |-> ""]
Invalid(msg) == [raised |-> "", ok |-> FALSE, msg |-> msg]
ValidateRaises(e) == [raised |-> e, ok |-> FALSE, msg |-> ""]

\* "/" in name or "\\" in name or "\x00" in name
HasInvalidCharacters(name) ==
    Contains(name, "/") \/ Contains(name, "\\") \/ Contains(name, NUL)

\* The checks of the name all three validate_config share
ValidateName(config) ==
    IF ~GetTruthy(config, "name") THEN Invalid("Player name is required")
    ELSE IF Len(config.name) > MaxNameLength
    THEN Invalid("Player name too long (max 64 characters)")
    ELSE IF HasInvalidCharacters(config.name)
    THEN Invalid("Player name contains invalid characters")
    ELSE Valid

\* try: int(v) except (TypeError, ValueError): return False, msg
ValidateNumeric(config, k, msg) ==
    LET v == Get(config, k, NoneValue)
    IN  IF v.kind = "none" THEN Valid
        ELSE IF IntOutcome(v) = "ok" THEN Valid
        ELSE IF IntOutcome(v) \in {"TypeError", "ValueError"} THEN Invalid(msg)
        ELSE ValidateRaises(IntOutcome(v))

\* SqueezeliteProvider.validate_config
SqueezeliteValidateConfig(config) ==
    IF ~GetTruthy(config, "name") THEN Invalid("Player name is required")
    ELSE IF ~GetTruthy(config, "device") THEN Invalid("Audio device is required")
    ELSE ValidateName(config)

\* SnapcastProvider.validate_config
SnapcastValidateConfig(config) ==
    IF ~ValidateName(config).ok THEN ValidateName(config)
    ELSE ValidateNumeric(config, "latency",
                         "Latency must be an integer (milliseconds)")

\* SendspinProvider.validate_config
SendspinValidateConfig(config) ==
    IF ~ValidateName(config).ok THEN ValidateName(config)
    ELSE ValidateNumeric(config, "delay_ms",
                         "Delay must be an integer (milliseconds)")

\* provider.validate_config(config)
ValidateConfig(provider, config) ==
    CASE provider = "squeezelite" -> SqueezeliteValidateConfig(config)
      [] provider = "snapcast" -> SnapcastValidateConfig(config)
      [] provider = "sendspin" -> SendspinValidateConfig(config)

(***************************************************************************)
(* get_default_config and prepare_config.                                  *)
(***************************************************************************)
\* provider.get_default_config()
GetDefaultConfig(provider) ==
    CASE provider = "squeezelite" ->
            [provider |-> "squeezelite", device |-> "default",
             server_ip |-> "", mac_address |-> "", volume |-> 75,
             autostart |-> FALSE]
      [] provider = "snapcast" ->
            [provider |-> "snapcast", device |-> "default", server_ip |-> "",
             host_id |-> "", latency |-> IntValue(0), volume |-> 75,
             autostart |-> FALSE]
      [] provider = "sendspin" ->
            [provider |-> "sendspin", device |-> "default", client_id |-> "",
             delay_ms |-> IntValue(0), log_level |-> "INFO", volume |-> 75,
             autostart |-> FALSE]

\* The field that holds the identifier a provider derives from the name
IdentifierKey(provider) ==
    CASE provider = "squeezelite" -> "mac_address"
      [] provider = "snapcast" -> "host_id"
      [] provider = "sendspin" -> "client_id"

\* generate_mac_address, generate_host_id or _generate_client_id
GenerateIdentifier(provider, name) ==
    CASE provider = "squeezelite" -> GenerateMacAddress(name)
      [] provider = "snapcast" -> GenerateHostId(name)
      [] provider = "sendspin" -> GenerateClientId(name)

\* result.update(config)
Update(result, config) == config @@ result

\* Faulty variant: the identifier is generated over one the user supplied
PrepareConfigAlwaysGenerates(provider, config) ==
    LET result == Update(GetDefaultConfig(provider), config)
        k == IdentifierKey(provider)
    IN  IF GetTruthy(result, "name")
        THEN [result EXCEPT ![k] = GenerateIdentifier(provider, result.name)]
        ELSE result

\* Faulty variant: an identifier that is present gets the provider's name
\* put in front of it
PrepareConfigPrefixesIdentifier(provider, config) ==
    LET result == Update(GetDefaultConfig(provider), config)
        k == IdentifierKey(provider)
    IN  IF GetTruthy(result, k)
        THEN [result EXCEPT ![k] = provider \o "-" \o @]
        ELSE IF GetTruthy(result, "name")
        THEN [result EXCEPT ![k] = GenerateIdentifier(provider, result.name)]
        ELSE result

\* provider.prepare_config(config)
PrepareConfig(provider, config) ==
    LET result == Update(GetDefaultConfig(provider), config)
        k == IdentifierKey(provider)
    IN  IF ~GetTruthy(result, k) /\ GetTruthy(result, "name")
        THEN [result EXCEPT ![k] = GenerateIdentifier(provider, result.name)]
        ELSE result

(***************************************************************************)
(* The calls of the provider methods.                                      *)
(***************************************************************************)
CallBuildFallbackCommand ==
    ProviderCall("build_fallback_command",
                 [supports |-> SupportsFallback(last.provider),
                  result |-> BuildFallbackCommand(last.provider, last.config)])

CallValidateConfig ==
    ProviderCall("validate_config", ValidateConfig(last.provider, last.config))

CallPrepareConfig ==
    ProviderCall("prepare_config", PrepareConfig(last.provider, last.config))

\* prepare_config called on what prepare_config has just returned
CallPrepareConfigAgain ==
    /\ last.op = "prepare_config"
    /\ last' = [op |-> "prepare_config_again", provider |-> last.provider,
                config |-> last.value,
                value |-> PrepareConfig(last.provider, last.value)]
    /\ UNCHANGED <<Managed, setsMade, pc, loc, readers, pgid>>

\* generate_mac_address is a static method: it is given a name alone
CallGenerateMacAddress ==
    /\ Has(last.config, "name")
    /\ ProviderCall("generate_mac_address",
                    GenerateMacAddress(last.config.name))

ProviderNext ==
    \/ CallBuildCommand
    \/ CallBuildFallbackCommand
    \/ CallValidateConfig
    \/ CallPrepareConfig
    \/ CallPrepareConfigAgain
    \/ CallGenerateMacAddress

ProviderSpec == ProviderInit /\ [][ProviderNext]_vars

(***************************************************************************)
(* _stream_output: the two reader threads _setup_streaming starts for one  *)
(* process, and a _cleanup_streaming of that name running beside them.     *)
(* readers holds, for each stream, where its thread is (pc), how many      *)
(* lines it has read (k), the line in hand (cur), what it has put on the   *)
(* console and in the log file, and how often it has closed its pipe; and, *)
(* for the run, the log file the threads were given (logFile), the line    *)
(* that is blank (blankAt) and the lines whose console or file write raises *)
(* (consoleFailAt, fileFailAt; 0: none).                                   *)
(***************************************************************************)
MaxLines == 3

ReaderName == "X"

\* Faulty variant: stderr lines get the stdout prefix
PrefixAlwaysPlain(name, stream_type) == "[" \o name \o "]"

\* prefix = f"[{name}]", f"[{name}:ERR]" for stderr
Prefix(name, stream_type) ==
    IF stream_type = "stderr" THEN "[" \o name \o ":ERR]"
    ELSE "[" \o name \o "]"

\* The i-th line the process writes to a stream
RawLine(stream_type, i, blank) ==
    IF blank THEN "  \n"
    ELSE (IF stream_type = "stderr" THEN "err" ELSE "out")
         \o DecimalDigits(i) \o " \n"

\* line.decode("utf-8", errors="replace").rstrip()
RECURSIVE Decode(_)
Decode(line) ==
    IF line # "" /\ SubSeq(line, Len(line), Len(line)) \in {" ", "\n", "\t", "\r"}
    THEN Decode(SubSeq(line, 1, Len(line) - 1))
    ELSE line

\* What stream.readline() does: returns a line, returns b"" (end of file),
\* raises OSError or ValueError (stream closed), returns something that is
\* not bytes, or raises any other exception (caught at lines 112-113)
ReadOutcomes == {"line", "eof", "closed", "nonbytes", "error"}

\* _setup_streaming has just started the two readers of ReaderName; faults
\* are the line numbers the environment may make blank or fail on (0: none)
ReaderStart(faults) ==
    \E openOk \in BOOLEAN :
        LET st == Start(EmptyState, ReaderName, "serve", NoCommand, openOk,
                        1, 2).st
        IN  /\ processes = st.processes
            /\ _stream_threads = st._stream_threads
            /\ _log_files = st._log_files
            /\ _stop_events = st._stop_events
            /\ alive = st.alive
            /\ eventSet = st.eventSet
            /\ joined = st.joined
            /\ closeCalls = st.closeCalls
            /\ nextPid = 2
            /\ setsMade = {}
            /\ last = NoCall
            /\ pc = [n \in Names |-> "idle"]
            /\ loc = [n \in Names |-> NoLocals]
            /\ pgid = NoGroups
            /\ readers \in
                  {[pid |-> st.processes[ReaderName],
                    logFile |-> ReaderName \in DOMAIN st._log_files,
                    blankAt |-> b, consoleFailAt |-> c, fileFailAt |-> f,
                    pc |-> [s \in Streams |-> "check"],
                    k |-> [s \in Streams |-> 0],
                    cur |-> [s \in Streams |-> ""],
                    after |-> [s \in Streams |-> 0],
                    console |-> [s \in Streams |-> <<>>],
                    file |-> [s \in Streams |-> <<>>],
                    pipeClosed |-> [s \in Streams |-> 0],
                    cleanup |-> "idle"] :
                     b \in faults, c \in faults,
                     f \in (IF openOk THEN faults ELSE {0})}

ReaderInit == ReaderStart(0..MaxLines)

ReaderStays == UNCHANGED <<Managed, setsMade, last, pc, loc, pgid>>

\* Faulty variant: the stop event is not looked at
R_CheckIgnoresStop(s) ==
    /\ readers.pc[s] = "check"
    /\ readers' = [readers EXCEPT !.pc[s] = "read"]
    /\ ReaderStays

\* lines 81-83: if stop_event and stop_event.is_set(): break
R_Check(s) ==
    /\ readers.pc[s] = "check"
    /\ readers' = [readers EXCEPT
                     !.pc[s] = IF readers.pid \in eventSet THEN "close"
                               ELSE "read"]
    /\ ReaderStays

\* Faulty variant: an unexpected exception ends the thread without the
\* finally clause
R_ReadErrorSkipsClose(s, outcome) ==
    /\ readers.pc[s] = "read"
    /\ outcome = "line" => readers.k[s] < MaxLines
    /\ readers' = [readers EXCEPT
                     !.k[s] = IF outcome = "line" THEN @ + 1 ELSE @,
                     !.pc[s] = IF outcome = "line" THEN "check"
                               ELSE IF outcome = "error" THEN "done"
                               ELSE "close"]
    /\ ReaderStays

\* lines 85-105 and 112-113: readline returns or raises; a line is decoded
\* and, unless empty, printed with the prefix (an exception of print is
\* suppressed); every outcome but a line leaves the loop for the finally
\* clause
R_Read(s, outcome) ==
    /\ readers.pc[s] = "read"
    /\ outcome = "line" => readers.k[s] < MaxLines
    /\ LET i == readers.k[s] + 1
           decoded == Decode(RawLine(s, i, i = readers.blankAt))
           counted == [readers EXCEPT
                         !.after[s] = IF readers.pid \in eventSet /\ @ < 2
                                      THEN @ + 1 ELSE @]
       IN  readers' =
             IF outcome # "line" THEN [counted EXCEPT !.pc[s] = "close"]
             ELSE IF decoded = ""
             THEN [counted EXCEPT !.k[s] = i, !.pc[s] = "check"]
             ELSE [counted EXCEPT
                     !.k[s] = i,
                     !.cur[s] = decoded,
                     !.console[s] =
                         IF i = readers.consoleFailAt THEN @
                         ELSE Append(@, Prefix(ReaderName, s) \o " " \o decoded),
                     !.pc[s] = IF readers.logFile THEN "write" ELSE "check"]
    /\ ReaderStays

\* lines 108-111: log_file.write(f"{decoded}\n"); log_file.flush(), any
\* exception suppressed; write raises ValueError on a closed file
R_Write(s) ==
    /\ readers.pc[s] = "write"
    /\ readers' = [readers EXCEPT
                     !.file[s] =
                         IF \/ closeCalls[readers.pid] > 0
                            \/ readers.k[s] = readers.fileFailAt
                         THEN @
                         ELSE Append(@, readers.cur[s] \o "\n"),
                     !.pc[s] = "check"]
    /\ ReaderStays

\* Faulty variant: the reader closes the log file too
R_CloseAlsoLogFile(s) ==
    /\ readers.pc[s] = "close"
    /\ readers' = [readers EXCEPT !.pipeClosed[s] = @ + 1, !.pc[s] = "done"]
    /\ closeCalls' = [closeCalls EXCEPT ![readers.pid] = @ + 1]
    /\ UNCHANGED <<processes, _stream_threads, _log_files, _stop_events,
                   alive, eventSet, joined, nextPid, setsMade, last, pc, loc,
                   pgid>>

\* lines 114-116: finally: stream.close()
R_Close(s) ==
    /\ readers.pc[s] = "close"
    /\ readers' = [readers EXCEPT !.pipeClosed[s] = @ + 1, !.pc[s] = "done"]
    /\ ReaderStays

\* _cleanup_streaming(name), statement by statement
CleanupStep(from, to, st) ==
    /\ readers.cleanup = from
    /\ readers' = [readers EXCEPT !.cleanup = to]
    /\ Install(st)
    /\ UNCHANGED <<nextPid, setsMade, last, pc, loc, pgid>>

\* lines 504-507
RC_Event == CleanupStep("idle", "threads", CleanupStopEvent(State, ReaderName))

\* lines 509-513
RC_Threads == CleanupStep("threads", "file", CleanupThreads(State, ReaderName))

\* lines 515-519
RC_File == CleanupStep("file", "done", CleanupLogFile(State, ReaderName))

ReaderNext ==
    \/ \E s \in Streams : R_Check(s)
    \/ \E s \in Streams, outcome \in ReadOutcomes : R_Read(s, outcome)
    \/ \E s \in Streams : R_Write(s)
    \/ \E s \in Streams : R_Close(s)
    \/ RC_Event
    \/ RC_Threads
    \/ RC_File

ReaderSpec == ReaderInit /\ [][ReaderNext]_vars

(***************************************************************************)
(* The readers while stop(ReaderName) is called, for what happens in the   *)
(* end.  The reader threads are scheduled by the interpreter: a reader     *)
(* that can take a step that does not block takes it eventually.  readline *)
(* blocks while the pipe is empty and a process has it open for writing:   *)
(* it is sure to return only once the process has exited.                  *)
(***************************************************************************)
ReaderLiveInit == ReaderStart({0})

ReaderLiveNext ==
    \/ \E s \in Streams : R_Check(s)
    \/ \E s \in Streams, outcome \in ReadOutcomes : R_Read(s, outcome)
    \/ \E s \in Streams : R_Write(s)
    \/ \E s \in Streams : R_Close(s)
    \/ \E o \in StopOutcomes : CallStop(ReaderName, o)
    \/ \E p \in PIDs : T_Exit(p)

ReaderFairness ==
    \A s \in Streams :
        /\ WF_vars(R_Check(s))
        /\ WF_vars(R_Write(s))
        /\ WF_vars(R_Close(s))
        /\ WF_vars(readers.pid \notin alive
                   /\ \E outcome \in ReadOutcomes : R_Read(s, outcome))

ReaderLiveSpec == ReaderLiveInit /\ [][ReaderLiveNext]_vars /\ ReaderFairness

(***************************************************************************)
(* Process groups.  Popen is given preexec_fn = _get_preexec_fn(): the     *)
(* child calls os.setsid() and leads a group of its own ("own"); when      *)
(* os.setsid is missing (preexec_fn is None) or raises OSError, which      *)
(* safe_setsid suppresses, the child stays in the group it was forked in,  *)
(* the supervisor's ("shared").  pgid records the outcome per PID.         *)
(***************************************************************************)
SetsidOutcomes == {"own", "shared"}

\* os.killpg(os.getpgid(p), sig): the live processes of p's group get the
\* signal, and the supervisor does when that group is its own
Killpg(st, groups, p) ==
    [pids |-> {q \in st.alive \cap DOMAIN groups :
                  q = p \/ (groups[p] = "shared" /\ groups[q] = "shared")},
     supervisor |-> groups[p] = "shared"]

NoTargets == [pids |-> {}, supervisor |-> FALSE]

\* The processes the os.killpg calls of stop(n) reach (lines 327, 340): a
\* call that raises ("error") or cannot be made ("nogroups") reaches none
StopTargets(st, groups, n, o) ==
    IF StopSignals(st, n, o) = <<>> \/ o \in {"error", "nogroups"}
    THEN NoTargets
    ELSE Killpg(st, groups, st.processes[n])

\* start(n, ...) with the outcome of os.setsid in the primary's child (g)
\* and in the fallback's (h)
G_Start(n, c, f, openOk, g, h) ==
    LET r == Start(State, n, c, f, openOk, nextPid, nextPid + 1)
    IN  /\ StartConsults(State, n, c, f, openOk)
        /\ nextPid + r.spawned - 1 <= MaxPid
        /\ r.spawned < 1 => g = "own"
        /\ r.spawned < 2 => h = "own"
        /\ Install(r.st)
        /\ nextPid' = nextPid + r.spawned
        /\ setsMade' = setsMade \cup SetRegistered(r.st, n)
        /\ pgid' = pgid @@ [p \in nextPid..(nextPid + r.spawned - 1) |->
                              IF p = nextPid THEN g ELSE h]
        /\ UNCHANGED <<pc, loc, readers>>
        /\ last' = [op |-> "start", name |-> n, c |-> c, f |-> f,
                    openOk |-> openOk, ok |-> r.ok, msg |-> r.msg]

\* stop(n), with the processes its signals reach
G_Stop(n, o) ==
    LET r == Stop(State, n, o)
    IN  /\ StopConsults(State, n, o)
        /\ Install(r.st)
        /\ UNCHANGED <<nextPid, setsMade, readers, pgid, pc, loc>>
        /\ last' = [op |-> "stop", name |-> n, o |-> o,
                    ok |-> r.ok, msg |-> r.msg,
                    pid |-> IF n \in DOMAIN processes THEN processes[n] ELSE 0,
                    tracked |-> {processes[m] : m \in DOMAIN processes \ {n}},
                    sent |-> StopSignals(State, n, o),
                    reached |-> StopTargets(State, pgid, n, o)]

GroupNext ==
    \/ \E n \in Names, c \in Behaviours, f \in Behaviours \cup {NoCommand},
          openOk \in BOOLEAN, g \in SetsidOutcomes, h \in SetsidOutcomes :
          G_Start(n, c, f, openOk, g, h)
    \/ \E n \in Names, o \in StopOutcomes : G_Stop(n, o)
    \/ \E p \in PIDs : Exit(p)

GroupSpec == Init /\ [][GroupNext]_vars

(***************************************************************************)
(* stop, cleanup_dead_processes and stop_all on the same names, run by two *)
(* threads of the embedding server, each taken one table access at a time. *)
(* cleanup_dead_processes and stop_all loop over                           *)
(* list(self.processes.keys()), a copy of the keys made when the call      *)
(* begins; pending is what is left of it, and stop(n) is the loop body of  *)
(* stop_all for the one name n.  A KeyError that no handler catches ends   *)
(* the call ("raised").                                                    *)
(***************************************************************************)
Workers == {"worker1", "worker2"}

SweepOps == {"cleanup_dead_processes", "stop_all"}

SweepLocals(op, names) ==
    [op |-> op, pending |-> names, cur |-> "", pid |-> 0, branch |-> "",
     ok |-> FALSE, cleaned |-> {}, stopped |-> 0, raised |-> ""]

SweepInit ==
    /\ processes = EmptyDict
    /\ _stream_threads = EmptyDict
    /\ _log_files = EmptyDict
    /\ _stop_events = EmptyDict
    /\ alive = {}
    /\ eventSet = {}
    /\ joined = {}
    /\ closeCalls = [p \in PIDs |-> 0]
    /\ nextPid = 1
    /\ setsMade = {}
    /\ last = NoCall
    /\ pc = [n \in Names \cup Workers |-> "idle"]
    /\ loc = [n \in Names \cup Workers |->
                 IF n \in Workers THEN SweepLocals("none", {}) ELSE NoLocals]
    /\ readers = NoReaders
    /\ pgid = NoGroups

SweepStays == UNCHANGED <<nextPid, setsMade, readers, pgid, last>>

\* The statement raised KeyError and nothing caught it
SweepRaise(w, l) ==
    /\ Goto(w, "raised", [l EXCEPT !.raised = "KeyError"])
    /\ UNCHANGED Managed

\* stop(n) is called; or lines 407-408, 423-424: cleaned = [] / stopped = 0
\* and the copy of the keys
S_Begin(w, op, n) ==
    /\ pc[w] = "idle"
    /\ op \in SweepOps => n = "X"
    /\ Goto(w, "loop",
            SweepLocals(op, IF op = "stop" THEN {n} ELSE DOMAIN processes))
    /\ UNCHANGED Managed
    /\ SweepStays

\* line 409: self.processes[name].poll() for the next name of the copy
S_Poll(w, n) ==
    /\ pc[w] = "loop"
    /\ loc[w].op = "cleanup_dead_processes"
    /\ n \in loc[w].pending
    /\ LET l == [loc[w] EXCEPT !.pending = @ \ {n}, !.cur = n]
       IN  IF n \notin DOMAIN processes THEN SweepRaise(w, l)
           ELSE /\ Goto(w, IF Poll(State, processes[n]) THEN "loop" ELSE "del",
                        l)
                /\ UNCHANGED Managed
    /\ SweepStays

\* lines 410-412: del self.processes[name]; _cleanup_streaming(name);
\* cleaned.append(name)
S_Del(w) ==
    /\ pc[w] = "del"
    /\ LET l == loc[w]
       IN  IF l.cur \notin DOMAIN processes THEN SweepRaise(w, l)
           ELSE /\ Install(StopRemove(State, l.cur))
                /\ Goto(w, "loop", [l EXCEPT !.cleaned = @ \cup {l.cur}])
    /\ SweepStays

\* line 425 into stop, line 313: if name not in self.processes
S_StopCheck(w, n) ==
    /\ pc[w] = "loop"
    /\ loc[w].op \in {"stop", "stop_all"}
    /\ n \in loc[w].pending
    /\ Goto(w, IF n \in DOMAIN processes THEN "stop_poll" ELSE "loop",
            [loc[w] EXCEPT !.pending = @ \ {n}, !.cur = n])
    /\ UNCHANGED Managed
    /\ SweepStays

\* stop, lines 316-317: process = self.processes[name]; process.poll()
S_StopPoll(w) ==
    /\ pc[w] = "stop_poll"
    /\ LET l == loc[w]
       IN  IF l.cur \notin DOMAIN processes THEN SweepRaise(w, l)
           ELSE /\ Goto(w,
                        IF Poll(State, processes[l.cur]) THEN "stop_signal"
                        ELSE "stop_del",
                        [l EXCEPT !.pid = processes[l.cur], !.branch = "dead",
                                  !.ok = FALSE])
                /\ UNCHANGED Managed
    /\ SweepStays

\* stop, lines 327-330, 337-343, 349-352, on the Popen object it holds
S_StopSignal(w, o) ==
    /\ pc[w] = "stop_signal"
    /\ o \in {"error", "nogroups"} =>
           /\ Goto(w, "loop", [loc[w] EXCEPT !.branch = o])
           /\ UNCHANGED Managed
    /\ o \notin {"error", "nogroups"} =>
           /\ alive' = IF o = "stuck" THEN alive ELSE alive \ {loc[w].pid}
           /\ Goto(w, "stop_del", [loc[w] EXCEPT !.branch = o, !.ok = TRUE])
           /\ UNCHANGED <<processes, _stream_threads, _log_files,
                          _stop_events, eventSet, joined, closeCalls>>
    /\ SweepStays

\* stop, lines 319-320, 331-332, 344-345: del self.processes[name] and
\* _cleanup_streaming(name); the KeyError of line 331 is inside the try and
\* ends in the handler of lines 349-352, the two others are outside it
S_StopDel(w) ==
    /\ pc[w] = "stop_del"
    /\ LET l == loc[w]
       IN  IF l.cur \in DOMAIN processes
           THEN /\ Install(StopRemove(State, l.cur))
                /\ Goto(w, "loop",
                        [l EXCEPT !.stopped = IF l.ok THEN @ + 1 ELSE @])
           ELSE IF l.branch = "graceful"
           THEN /\ Goto(w, "loop", [l EXCEPT !.ok = FALSE])
                /\ UNCHANGED Managed
           ELSE SweepRaise(w, l)
    /\ SweepStays

\* lines 415, 429: return cleaned / return stopped; stop returns
S_Return(w) ==
    /\ pc[w] = "loop"
    /\ loc[w].pending = {}
    /\ Goto(w, "idle", SweepLocals("none", {}))
    /\ UNCHANGED Managed
    /\ SweepStays

SweepNext ==
    \/ \E n \in Names : CallStart(n, "serve", NoCommand, TRUE)
    \/ \E p \in PIDs : T_Exit(p)
    \/ \E w \in Workers, op \in SweepOps \cup {"stop"}, n \in Names :
          S_Begin(w, op, n)
    \/ \E w \in Workers, n \in Names : S_Poll(w, n)
    \/ \E w \in Workers : S_Del(w)
    \/ \E w \in Workers, n \in Names : S_StopCheck(w, n)
    \/ \E w \in Workers : S_StopPoll(w)
    \/ \E w \in Workers, o \in StopOutcomes : S_StopSignal(w, o)
    \/ \E w \in Workers : S_StopDel(w)
    \/ \E w \in Workers : S_Return(w)

SweepSpec == SweepInit /\ [][SweepNext]_vars

(***************************************************************************)
(* Properties.  A step is the call op(n) when last' names it; the          *)
(* unprimed variables are the state the call was made in.                  *)
(***************************************************************************)
IsCall(l, op, n) == l.op = op /\ l.name = n

\* n's streaming resources are those _setup_streaming made for process p
StreamingAttached(st, n, p) ==
    /\ n \in DOMAIN st._stop_events /\ st._stop_events[n] = p
    /\ p \notin st.eventSet
    /\ n \in DOMAIN st._stream_threads /\ st._stream_threads[n] = Threads(p)
    /\ n \in DOMAIN st._log_files => st._log_files[n] = p

NoStreaming(st, n) ==
    /\ n \notin DOMAIN st._stop_events
    /\ n \notin DOMAIN st._stream_threads
    /\ n \notin DOMAIN st._log_files

\* C1: start(n, command) on a name that is not tracked, with a process that
\* is alive after the grace period, returns success, and is_running(n)
\* called right after it returns true.
C1_StartThenRunning ==
    [][\A n \in Names :
        (IsCall(last', "start", n) /\ n \notin DOMAIN processes
            /\ last'.c = "serve")
        => (last'.ok /\ IsRunning(State, n)')]_vars

C1_Witness ==
    /\ last.op = "start" /\ last.c = "serve" /\ last.ok
    /\ nextPid = 2
    /\ IsRunning(State, last.name)

\* C2: start(n, ...) on a name whose tracked process is alive returns the
\* already-running failure, spawns nothing and leaves the handle of n, its
\* streaming resources and everything else as they were.
C2_AlreadyRunningChangesNothing ==
    [][\A n \in Names :
        (IsCall(last', "start", n) /\ IsRunning(State, n))
        => (~last'.ok /\ last'.msg = "already running"
            /\ UNCHANGED Managed)]_vars

C2_Witness ==
    /\ last.op = "start" /\ last.msg = "already running"
    /\ IsRunning(State, last.name)
    /\ StreamingAttached(State, last.name, processes[last.name])

\* C3: when the primary command's process exits within the grace period
\* and the fallback command's process is alive after its own, start returns
\* success, the process tracked under n is the fallback's (the second one
\* spawned, PID nextPid + 1), not the primary's (PID nextPid), and the log
\* streaming is attached to the fallback's process.
C3_FallbackTracked ==
    [][\A n \in Names :
        (IsCall(last', "start", n) /\ last'.c = "crash" /\ last'.f = "serve")
        => (/\ last'.ok
            /\ n \in DOMAIN processes'
            /\ processes'[n] = nextPid + 1
            /\ processes'[n] # nextPid
            /\ IsRunning(State, n)'
            /\ StreamingAttached(State', n, nextPid + 1))]_vars

C3_Witness ==
    /\ last.op = "start" /\ last.c = "crash" /\ last.f = "serve" /\ last.ok
    /\ processes[last.name] = nextPid - 1
    /\ StreamingAttached(State, last.name, nextPid - 1)
    /\ nextPid - 2 \notin alive

\* C4: stop(n) on a tracked live process, when the process exits within the
\* graceful timeout and when the forced kill is used after the timeout
\* (whether or not the kill succeeds), returns success; afterwards
\* is_running(n) is false and n is not in the process table.
C4_StopLive ==
    [][\A n \in Names :
        (IsCall(last', "stop", n) /\ IsRunning(State, n)
            /\ last'.o \in {"graceful", "forced", "stuck"})
        => (/\ last'.ok
            /\ ~IsRunning(State, n)'
            /\ n \notin DOMAIN processes')]_vars

C4_Witness ==
    /\ last.op = "stop" /\ last.o \in {"forced", "stuck"} /\ last.ok
    /\ last.msg = "force stopped"
    /\ last.name \notin DOMAIN processes

\* C5: stop(n) on a tracked name whose process has already exited returns
\* "was not running" (a failure that is not "not found") and removes the
\* entry.
C5_StopDead ==
    [][\A n \in Names :
        (IsCall(last', "stop", n) /\ n \in DOMAIN processes
            /\ ~IsRunning(State, n))
        => (/\ ~last'.ok
            /\ last'.msg = "was not running"
            /\ n \notin DOMAIN processes')]_vars

C5_Witness ==
    /\ last.op = "stop" /\ last.msg = "was not running"
    /\ last.name \notin DOMAIN processes
    /\ eventSet # {}

\* C6: stop(n) on a name with no entry returns "not found" and leaves the
\* process table and every streaming resource as they were.
C6_StopUntracked ==
    [][\A n \in Names :
        (IsCall(last', "stop", n) /\ n \notin DOMAIN processes)
        => (/\ ~last'.ok
            /\ last'.msg = "not found"
            /\ UNCHANGED Managed)]_vars

C6_Witness ==
    /\ last.op = "stop" /\ last.msg = "not found"
    /\ last.name \notin DOMAIN processes
    /\ DOMAIN _stop_events # {}

\* C7: when start ends in an immediate-exit failure (the primary exited
\* within the grace period and no fallback was given, or the fallback
\* exited within its grace period too), the name is not in the process
\* table afterwards.
C7_FailedStartAbsent ==
    (last.op = "start"
        /\ last.msg \in {"Process failed to start", "Fallback also failed"})
    => last.name \notin DOMAIN processes

\* C8: every stop(n) on a tracked name tears down n's streaming resources
\* exactly once, on every path: the stop event is set, the readers are
\* joined, the log file is closed once, and no bookkeeping is left.
C8_StopTearsDown ==
    [][\A n \in Names :
        (IsCall(last', "stop", n) /\ n \in DOMAIN processes)
        => (/\ NoStreaming(State', n)
            /\ n \in DOMAIN _stop_events => _stop_events[n] \in eventSet'
            /\ n \in DOMAIN _stream_threads
                   => _stream_threads[n] \subseteq joined'
            /\ n \in DOMAIN _log_files
                   => closeCalls'[_log_files[n]] = 1)]_vars

\* C9: get_all_statuses(names) called right after stop_all has returned
\* maps every name to false.
C9_StopAllThenAllFalse ==
    [][(last.op = "stop_all" /\ last'.op = "get_all_statuses")
        => \A n \in last'.names : last'.value[n] = FALSE]_vars

\* What a call on n can leave behind: the entry of n in the table and in
\* the streaming maps, and the state of the stop events, reader threads and
\* log files of the processes in own.
View(st, n, own) ==
    [processes |-> Only(st.processes, n),
     _stream_threads |-> Only(st._stream_threads, n),
     _log_files |-> Only(st._log_files, n),
     _stop_events |-> Only(st._stop_events, n),
     eventSet |-> st.eventSet \cap own,
     joined |-> {t \in st.joined : t[1] \in own},
     closeCalls |-> [x \in own |-> st.closeCalls[x]]]

\* The call recorded in l, run on its own from the entry it found, with
\* the same commands, PIDs and outcomes.
RunAlone(l, n) ==
    CASE l.op = "start" ->
           Start(l.pre, n, l.c, IF l.fb THEN l.f ELSE NoCommand, l.openOk,
                 l.p, l.q)
      [] l.op = "stop" -> Stop(l.pre, n, l.o)
      [] OTHER -> Result(l.pre, IsRunning(l.pre, n), "is_running", 0)

SameAsAlone(n) ==
    LET l == loc[n]
        own == OwnPids(l.pre, n) \cup ({l.p, l.q} \ {0})
        r == RunAlone(l, n)
    IN  /\ l.ok = r.ok
        /\ l.msg = r.msg
        /\ View(State, n, own) = View(r.st, n, own)

C11_EntryWhole ==
    \A n \in Names :
        n \in DOMAIN processes
        <=> (n \in DOMAIN _stop_events /\ n \in DOMAIN _stream_threads)

\* The processes whose streaming resources the maps hold under n.
StreamingPids(st, n) ==
    (IF n \in DOMAIN st._stop_events THEN {st._stop_events[n]} ELSE {})
    \cup (IF n \in DOMAIN st._stream_threads
          THEN {t[1] : t \in st._stream_threads[n]} ELSE {})
    \cup (IF n \in DOMAIN st._log_files THEN {st._log_files[n]} ELSE {})

\* The streaming resources made for process p have been released: the stop
\* event is set and the log file, if one was opened, has been closed.
Released(st, p, opened) ==
    /\ p \in st.eventSet
    /\ opened => st.closeCalls[p] >= 1

\* C12: over any sequence of calls, the streaming maps of a name refer to
\* the resources of one process only, and of all the sets of streaming
\* resources start has registered for a name, every one but the one
\* registered now has its stop event set and its log file closed; so when
\* start has registered a new set, every earlier one has been released.
C12_NoLeakAcrossRestarts ==
    /\ \A n \in Names : Cardinality(StreamingPids(State, n)) <= 1
    /\ \A s \in setsMade :
          \/ (s[1] \in DOMAIN _stop_events /\ _stop_events[s[1]] = s[2])
          \/ Released(State, s[2], s[3])

\* start has registered a second set for the same name, with a log file
\* each.
C12_Witness ==
    /\ last.op = "start" /\ last.ok
    /\ \E n \in Names :
          /\ {<<n, 1, TRUE>>, <<n, 2, TRUE>>} \subseteq setsMade
          /\ StreamingAttached(State, n, 2)
          /\ closeCalls[1] = 1

\* The table entry of m, its process and its streaming resources.
Entry(st, m, own) == [view |-> View(st, m, own), alive |-> st.alive \cap own]

TornDown(st, st2, n) ==
    /\ n \in DOMAIN st._stop_events => st._stop_events[n] \in st2.eventSet
    /\ n \in DOMAIN st._stream_threads
           => st._stream_threads[n] \subseteq st2.joined
    /\ n \in DOMAIN st._log_files => st2.closeCalls[st._log_files[n]] >= 1

\* C14: cleanup_dead_processes returns exactly the tracked names whose
\* process has exited, removes them from the table and tears down the
\* streaming resources of each; it leaves every tracked name whose process
\* is alive as it was; when it returns every tracked entry is alive.
C14_CleanupDead ==
    [][last'.op = "cleanup_dead_processes"
        => LET dead == {n \in DOMAIN processes : ~IsRunning(State, n)}
           IN  /\ last'.value = dead
               /\ DOMAIN processes' = DOMAIN processes \ dead
               /\ \A n \in dead :
                     NoStreaming(State', n) /\ TornDown(State, State', n)
               /\ \A n \in DOMAIN processes \ dead :
                     LET own == OwnPids(State, n)
                     IN  Entry(State', n, own) = Entry(State, n, own)
               /\ \A n \in DOMAIN processes' : IsRunning(State', n)]_vars

\* cleanup_dead_processes has removed one name, whose process had streaming
\* attached, and left the other, which is running.
C14_Witness ==
    /\ last.op = "cleanup_dead_processes"
    /\ \E n \in Names :
          /\ last.value = {n}
          /\ \E s \in setsMade : s[1] = n /\ Released(State, s[2], s[3])
          /\ \E m \in Names \ {n} :
                IsRunning(State, m)
                /\ StreamingAttached(State, m, processes[m])

\* n is in the process table and its process has not exited
TrackedAlive(n) == n \in DOMAIN processes /\ processes[n] \in alive

\* C15: is_running(n) returns true if and only if n is in the process table
\* and its process has not exited; get_all_statuses(names) maps each of the
\* given names, and nothing else, to that same value (false for a name with
\* no entry).
C15_StatusIsPoll ==
    /\ last.op = "is_running" => (last.value <=> TrackedAlive(last.name))
    /\ last.op = "get_all_statuses"
          => /\ DOMAIN last.value = last.names
             /\ \A n \in last.names : last.value[n] <=> TrackedAlive(n)

\* get_all_statuses was asked for both names: one is tracked and has
\* exited, the other is running.
C15_Witness ==
    /\ last.op = "get_all_statuses" /\ last.names = Names
    /\ \E n \in Names :
          /\ n \in DOMAIN processes /\ processes[n] \notin alive
          /\ ~last.value[n]
          /\ \E m \in Names \ {n} : last.value[m]

\* C16: stop_all stops every entry that is tracked when it is called: an
\* entry found dead is removed and not counted, a live entry is either
\* removed (its stop returned success) or left as it was (its stop returned
\* a failure), and the returned count is the number of live entries
\* removed.
C16_StopAllCount ==
    [][last'.op = "stop_all"
        => LET livePre == {n \in DOMAIN processes : IsRunning(State, n)}
               stopped == {n \in livePre : n \notin DOMAIN processes'}
           IN  /\ last'.value = Cardinality(stopped)
               /\ \A n \in DOMAIN processes \ livePre :
                     n \notin DOMAIN processes' /\ NoStreaming(State', n)
               /\ \A n \in stopped : NoStreaming(State', n)
               /\ \A n \in livePre \ stopped :
                     LET own == OwnPids(State, n)
                     IN  Entry(State', n, own) = Entry(State, n, own)
               /\ DOMAIN processes' \subseteq DOMAIN processes]_vars

\* stop_all found two entries, one of them dead, and returned 1.
C16_Witness ==
    /\ last.op = "stop_all" /\ last.tracked = Names /\ last.value = 1
    /\ processes = EmptyDict
    /\ Cardinality(eventSet) = 2

\* C17: whenever a spawn attempted by start fails because the binary is
\* missing, for the primary command or for the fallback command, start
\* returns the binary-not-found failure, which is not the one returned for
\* other spawn errors.
C17_BinaryMissingReported ==
    (last.op = "start"
        /\ (last.c = "missing" \/ (last.c = "crash" /\ last.f = "missing")))
    => (~last.ok /\ last.msg = "Binary not found")

\* C18: when the log file cannot be opened as streaming is attached, start
\* still returns success, the name is tracked and running, and both reader
\* threads are started for the tracked process with no log file (they
\* forward to the console only).
C18_LogOpenFailureNotFatal ==
    [][\A n \in Names :
        (IsCall(last', "start", n) /\ ~last'.openOk)
        => (/\ last'.ok
            /\ IsRunning(State', n)
            /\ StreamingAttached(State', n, processes'[n])
            /\ Cardinality(_stream_threads'[n]) = 2
            /\ n \notin DOMAIN _log_files')]_vars

C18_Witness ==
    /\ last.op = "start" /\ ~last.openOk /\ last.ok
    /\ IsRunning(State, last.name)
    /\ _stream_threads[last.name] = Threads(processes[last.name])
    /\ last.name \notin DOMAIN _log_files

\* C19: on a platform without process groups, stop of a live process falls
\* back to signaling the process itself and still stops it: it returns
\* success and the process has exited.
C19_NoGroupsStillStops ==
    [][\A n \in Names :
        (IsCall(last', "stop", n) /\ IsRunning(State, n)
            /\ last'.o = "nogroups")
        => (last'.ok /\ processes[n] \notin alive')]_vars

\* C20: a start call on a name whose tracked process has already exited
\* does not return the already-running failure; from the moment it is about
\* to spawn, the streaming resources the dead entry had are torn down and
\* unregistered until the new ones are set up; and when it has returned
\* success the table maps the name to the process it spawned, not to the
\* dead one.
C20_DeadEntryReplaced ==
    \A n \in Names :
        LET l == loc[n]
        IN  (l.op = "start" /\ n \in DOMAIN l.pre.processes
                /\ ~IsRunning(l.pre, n))
            => /\ pc[n] = "idle" => l.msg # "already running"
               /\ pc[n] \notin {"cleanup_event", "cleanup_threads",
                                "cleanup_file"}
                     => TornDown(l.pre, State, n)
               /\ pc[n] \in {"popen", "register", "poll", "fb_popen",
                             "fb_register", "fb_poll", "setup_event"}
                     => NoStreaming(State, n)
               /\ (pc[n] = "idle" /\ l.ok)
                     => /\ n \in DOMAIN processes
                        /\ processes[n] = l.cur
                        /\ l.cur \in {l.p, l.q} \ {0}
                        /\ l.cur # l.pre.processes[n]
                        /\ StreamingPids(State, n) = {l.cur}

\* start has replaced a dead entry that had streaming resources with a
\* log file, and returned success.
C20_Witness ==
    \E n \in Names :
        /\ pc[n] = "idle" /\ loc[n].op = "start" /\ loc[n].ok
        /\ n \in DOMAIN loc[n].pre.processes
        /\ ~IsRunning(loc[n].pre, n)
        /\ n \in DOMAIN loc[n].pre._log_files
        /\ processes[n] = 2
        /\ closeCalls[1] = 1

(***************************************************************************)
(* Properties of the providers, over ProviderSpec: last names the method   *)
(* that returned, the provider and configuration it was called with and    *)
(* what it returned.                                                       *)
(***************************************************************************)
\* The command has the argument flag
HasFlag(cmd, flag) == \E i \in 1..Len(cmd) : cmd[i] = flag

\* The command has the argument flag immediately followed by v
FlagValue(cmd, flag, v) ==
    \E i \in 1..(Len(cmd) - 1) : cmd[i] = flag /\ cmd[i + 1] = v

\* The flag by which each backend is told its output device
DeviceFlag(provider) ==
    CASE provider = "squeezelite" -> "-o"
      [] provider = "snapcast" -> "--soundcard"
      [] provider = "sendspin" -> "--audio-device"

Built == last.op = "build_command" /\ last.value.result.raised = ""

FellBack == last.op = "build_fallback_command" /\ last.value.result.raised = ""

\* C22: for each provider build_fallback_command returns None exactly when
\* supports_fallback() is false and a command exactly when it is true; the
\* Squeezelite fallback command has -o null and an explicit sample rate (-r)
\* and keeps the configuration's name (-n), MAC address (-m) and, when one is
\* given, server (-s).
C22_FallbackIffSupported ==
    FellBack =>
        LET r == last.value.result
            player == last.config
        IN  /\ r.none <=> ~last.value.supports
            /\ ~r.none <=> last.value.supports
            /\ (last.provider = "squeezelite" /\ ~r.none) =>
                  /\ Head(r.cmd) = "squeezelite"
                  /\ FlagValue(r.cmd, "-o", "null")
                  /\ FlagValue(r.cmd, "-r", "44100")
                  /\ FlagValue(r.cmd, "-n", player.name)
                  /\ FlagValue(r.cmd, "-m", player.mac_address)
                  /\ IF Has(player, "server_ip") /\ player.server_ip # ""
                     THEN FlagValue(r.cmd, "-s", player.server_ip)
                     ELSE ~HasFlag(r.cmd, "-s")

C22_Witness ==
    /\ FellBack
    /\ last.provider = "squeezelite"
    /\ ~last.value.result.none
    /\ Has(last.config, "device") /\ last.config.device = "hw:1,0"
    /\ Has(last.config, "server_ip") /\ last.config.server_ip = "192.168.1.10"
    /\ FlagValue(last.value.result.cmd, "-o", "null")

\* The numeric field each provider validates, if any
NumericField(provider) ==
    CASE provider = "snapcast" -> "latency"
      [] provider = "sendspin" -> "delay_ms"
      [] OTHER -> ""

NumericMessage(provider) ==
    CASE provider = "snapcast" -> "Latency must be an integer (milliseconds)"
      [] provider = "sendspin" -> "Delay must be an integer (milliseconds)"
      [] OTHER -> ""

\* C23: validate_config accepts a configuration exactly when its name is
\* non-empty, at most 64 characters long and free of '/', backslash and NUL,
\* its device (Squeezelite only) is non-empty and a supplied latency
\* (Snapcast) or delay_ms (Sendspin) converts to an integer; it answers
\* (true, "") when it accepts and (false, reason) for the first rule violated,
\* in the order: name required, device required, name too long, invalid
\* characters, numeric field.
C23_ValidateConfigRules ==
    last.op = "validate_config" =>
        LET config == last.config
            name == IF Has(config, "name") THEN config.name ELSE ""
            device == IF Has(config, "device") THEN config.device ELSE ""
            k == NumericField(last.provider)
            supplied == k # "" /\ Has(config, k) /\ config[k].kind # "none"
            expected ==
                IF name = "" THEN "Player name is required"
                ELSE IF last.provider = "squeezelite" /\ device = ""
                THEN "Audio device is required"
                ELSE IF Len(name) > 64
                THEN "Player name too long (max 64 characters)"
                ELSE IF \E i \in 1..Len(name) :
                           SubSeq(name, i, i) \in {"/", "\\", NUL}
                THEN "Player name contains invalid characters"
                ELSE IF supplied /\ IntOutcome(config[k]) # "ok"
                THEN NumericMessage(last.provider)
                ELSE ""
        IN  /\ last.value.raised = ""
            /\ last.value.ok <=> expected = ""
            /\ last.value.msg = expected

\* C24: prepare_config returns the provider's defaults overridden by every
\* key the user supplied, and derives the identifier (mac_address, host_id or
\* client_id) from the name only when the user supplied none or an empty
\* one; an identifier the user supplied is kept unchanged.
C24_PrepareConfigMerges ==
    last.op = "prepare_config" =>
        LET config == last.config
            result == last.value
            defaults == GetDefaultConfig(last.provider)
            k == IdentifierKey(last.provider)
            supplied == Has(config, k) /\ config[k] # ""
            named == Has(config, "name") /\ config.name # ""
        IN  /\ DOMAIN result = DOMAIN defaults \cup DOMAIN config
            /\ \A key \in DOMAIN config \ {k} : result[key] = config[key]
            /\ \A key \in DOMAIN defaults \ (DOMAIN config \cup {k}) :
                  result[key] = defaults[key]
            /\ supplied => result[k] = config[k]
            /\ (~supplied /\ named) =>
                  result[k] = GenerateIdentifier(last.provider, config.name)
            /\ (~supplied /\ ~named) => result[k] = ""

C24_Witness ==
    /\ last.op = "prepare_config"
    /\ last.provider = "squeezelite"
    /\ last.config = [name |-> "Kitchen", volume |-> 50, autostart |-> TRUE]
    /\ last.value = [provider |-> "squeezelite", name |-> "Kitchen",
                     device |-> "default", server_ip |-> "",
                     mac_address |-> "32:fa:00:a6:6f:2e", volume |-> 50,
                     autostart |-> TRUE]

\* The number a lowercase hex digit stands for (16 for any other character)
HexValue(c) ==
    IF \E d \in 0..15 : HexDigit(d) = c
    THEN CHOOSE d \in 0..15 : HexDigit(d) = c
    ELSE 16

\* The i-th octet (from 0) read back from a MAC address string
Octet(mac, i) ==
    16 * HexValue(SubSeq(mac, 3 * i + 1, 3 * i + 1))
    + HexValue(SubSeq(mac, 3 * i + 2, 3 * i + 2))

\* C25: for every name, the empty one included, generate_mac_address
\* returns six colon-separated octets of two lowercase hex digits each; the
\* first octet has the locally-administered bit (0x02) set and the multicast
\* bit (0x01) cleared, its other six bits and the other five octets are the
\* first six bytes of the name's hash unchanged.
C25_MacAddressFormat ==
    last.op = "generate_mac_address" =>
        LET mac == last.value
            hash == Md5Digest(last.config.name)
        IN  /\ Len(mac) = 17
            /\ \A i \in 0..5 :
                  /\ HexValue(SubSeq(mac, 3 * i + 1, 3 * i + 1)) < 16
                  /\ HexValue(SubSeq(mac, 3 * i + 2, 3 * i + 2)) < 16
            /\ \A i \in 1..5 : SubSeq(mac, 3 * i, 3 * i) = ":"
            /\ (Octet(mac, 0) \div 2) % 2 = 1
            /\ Octet(mac, 0) % 2 = 0
            /\ Octet(mac, 0) \div 4 = hash[1] \div 4
            /\ \A i \in 1..5 : Octet(mac, i) = hash[i + 1]

\* "Kitchen" hashes to 33 fa 00 a6 6f 2e: both low bits of the first byte set
C25_Witness ==
    /\ last.op = "generate_mac_address"
    /\ last.config.name = "Kitchen"
    /\ Md5Digest("Kitchen")[1] % 4 = 3
    /\ last.value = "32:fa:00:a6:6f:2e"

(***************************************************************************)
(* Properties of the signals and spawns of the supervisor, over Spec.      *)
(***************************************************************************)
\* C26: stop on a live tracked process sends SIGTERM first; it sends SIGKILL
\* only after the graceful wait timed out, never when the process exits
\* within the graceful timeout and never before SIGTERM; a forced kill that
\* raises or times out does not make stop fail.
C26_TermBeforeKill ==
    [][\A n \in Names :
         (IsCall(last', "stop", n) /\ IsRunning(State, n)) =>
             LET sent == last'.sent
                 timedOut == last'.o \in {"forced", "stuck"}
             IN  /\ last'.o \in {"graceful", "forced", "stuck", "error"} =>
                       (sent # <<>> /\ sent[1] = "SIGTERM")
                 /\ \A i \in 1..Len(sent) :
                       sent[i] = "SIGKILL" =>
                           /\ timedOut
                           /\ \E j \in 1..(i - 1) : sent[j] = "SIGTERM"
                 /\ last'.o = "graceful" =>
                       /\ \A i \in 1..Len(sent) : sent[i] # "SIGKILL"
                       /\ processes[n] \notin alive'
                 /\ timedOut =>
                       /\ last'.ok
                       /\ \E i \in 1..Len(sent) : sent[i] = "SIGKILL"
       ]_vars

\* A forced kill that failed: the process is still alive, stop succeeded
C26_Witness ==
    /\ last.op = "stop"
    /\ last.o = "stuck"
    /\ last.sent = <<"SIGTERM", "SIGKILL">>
    /\ last.ok
    /\ processes = EmptyDict
    /\ alive # {}

\* C27: one start call spawns at most two processes: the primary, and the
\* fallback exactly once and only if the primary exited within the grace
\* period and a fallback command was given; if the fallback exits within its
\* grace period too, or cannot be spawned, start returns failure and spawns
\* nothing further.
C27_AtMostTwoSpawns ==
    [][\A n \in Names :
         IsCall(last', "start", n) =>
             LET spawned == nextPid' - nextPid
                 primaryExited ==
                     ~StartAlreadyRunning(State, n) /\ last'.c = "crash"
                 f == last'.f
             IN  /\ spawned \in 0..2
                 /\ Cardinality(alive' \ alive) <= 1
                 /\ spawned = 2 => (primaryExited /\ f # NoCommand)
                 /\ (primaryExited /\ f \in {"crash", "serve"}) => spawned = 2
                 /\ (primaryExited /\ f \in {"missing", "denied", NoCommand})
                       => (spawned = 1 /\ ~last'.ok)
                 /\ (primaryExited /\ f = "crash") =>
                       (~last'.ok /\ alive' \subseteq alive)
                 /\ ~primaryExited => spawned <= 1
       ]_vars

\* Primary and fallback both exited: two spawns, failure
C27_Witness ==
    /\ last.op = "start"
    /\ last.c = "crash" /\ last.f = "crash"
    /\ ~last.ok
    /\ nextPid = 3
    /\ alive = {}

(***************************************************************************)
(* Properties of the reader threads, over ReaderSpec.                      *)
(***************************************************************************)
\* C28: the log file opened for a tracked process is closed exactly once, by
\* the cleanup routine and never by a reader thread; a reader only ever
\* closes its own pipe end.
C28_LogFileClosedByCleanupOnly ==
    [][/\ \A p \in PIDs :
            closeCalls'[p] # closeCalls[p] =>
                /\ readers.cleanup = "file" /\ readers'.cleanup = "done"
                /\ readers'.pc = readers.pc
                /\ readers'.pipeClosed = readers.pipeClosed
                /\ p = readers.pid
                /\ closeCalls[p] = 0 /\ closeCalls'[p] = 1
       /\ \A s \in Streams :
            readers'.pipeClosed[s] # readers.pipeClosed[s] =>
                /\ readers.pc[s] = "close" /\ readers'.pc[s] = "done"
                /\ closeCalls' = closeCalls
                /\ \A t \in Streams \ {s} :
                      readers'.pipeClosed[t] = readers.pipeClosed[t]
       /\ (readers'.cleanup = "done" /\ readers'.logFile) =>
              closeCalls'[readers'.pid] = 1
      ]_vars

\* Cleanup is over and both readers have exited
C28_Witness ==
    /\ readers.cleanup = "done"
    /\ readers.logFile
    /\ closeCalls[readers.pid] = 1
    /\ \A s \in Streams : readers.pc[s] = "done" /\ readers.pipeClosed[s] = 1

\* C29: a reader checks the stop signal before every read: once the stop
\* signal of its process is set, a reader completes at most the one read it
\* had already committed to (handling at most one more line), and from its
\* next check on it exits without another read.
C29_StopCheckedBeforeEachRead ==
    [][\A s \in Streams :
         /\ readers'.after[s] <= 1
         /\ (readers.pc[s] = "check" /\ readers.pid \in eventSet
             /\ readers'.pc[s] # "check") =>
                /\ readers'.pc[s] = "close"
                /\ readers'.k[s] = readers.k[s]
         /\ readers'.pc[s] = "read" =>
                (readers.pc[s] = "read"
                 \/ (readers.pc[s] = "check" /\ readers.pid \notin eventSet))
         /\ (readers.pc[s] \in {"close", "done"}) =>
                readers'.pc[s] \in {"close", "done"}
      ]_vars

\* A reader that read one line after the stop signal was set and has exited
C29_Witness ==
    /\ readers.pid \in eventSet
    /\ readers.after["stdout"] = 1
    /\ readers.k["stdout"] = 1
    /\ readers.console["stdout"] # <<>>
    /\ readers.pc["stdout"] = "done"

\* The line numbers 1..n outside skip, in order
RECURSIVE Kept(_, _)
Kept(n, skip) ==
    IF n = 0 THEN <<>>
    ELSE Kept(n - 1, skip) \o (IF n \in skip THEN <<>> ELSE <<n>>)

\* s is the sequence t or the beginning of it
IsPrefixOf(s, t) == Len(s) <= Len(t) /\ s = SubSeq(t, 1, Len(s))

\* C30: for each stream, every non-empty line the reader has taken from the
\* pipe is on the console once, as "[name] line" (stdout) or
\* "[name:ERR] line" (stderr), and in the log file once, as the line without
\* prefix, both in the order read; empty lines go to neither sink; a console
\* or file write that fails loses that line in that sink only and the reader
\* goes on to the later lines.
C30_LinesEmittedInOrder ==
    \A s \in Streams :
        readers.cleanup # "none" =>
        LET text(i) == (IF s = "stderr" THEN "err" ELSE "out")
                       \o (IF i = 1 THEN "1" ELSE IF i = 2 THEN "2"
                           ELSE IF i = 3 THEN "3" ELSE "4")
            onConsole(i) == (IF s = "stderr" THEN "[X:ERR] " ELSE "[X] ")
                            \o text(i)
            inFile(i) == text(i) \o "\n"
            printed == Kept(readers.k[s],
                            {readers.blankAt, readers.consoleFailAt})
            handled == IF readers.pc[s] = "write" THEN readers.k[s] - 1
                       ELSE readers.k[s]
            written == Kept(handled, {readers.blankAt, readers.fileFailAt})
            expected == [j \in 1..Len(written) |-> inFile(written[j])]
        IN  /\ readers.console[s] =
                  [j \in 1..Len(printed) |-> onConsole(printed[j])]
            /\ IF ~readers.logFile THEN readers.file[s] = <<>>
               ELSE IF closeCalls[readers.pid] = 0
               THEN readers.file[s] = expected
               ELSE IsPrefixOf(readers.file[s], expected)

\* stderr: line 1 failed on the console, line 2 was blank, line 3 failed in
\* the file
C30_Witness ==
    /\ readers.cleanup = "idle"
    /\ readers.consoleFailAt = 1 /\ readers.blankAt = 2
    /\ readers.fileFailAt = 3
    /\ readers.k["stderr"] = 3 /\ readers.pc["stderr"] = "check"
    /\ readers.console["stderr"] = <<"[X:ERR] err3">>
    /\ readers.file["stderr"] = <<"err1\n">>
    /\ readers.console["stdout"] = <<"[X] out3">>


\* C31: a reader thread closes its pipe end on every exit path: whatever
\* makes it leave the read loop (stop signal seen, end of file, read error
\* on a closed stream, data that is not bytes, any other exception), its
\* next step is the close of the pipe, and a reader that has ended has
\* closed its pipe once.
C31_PipeClosedOnEveryExit ==
    [][\A s \in Streams :
         LET inLoop == {"check", "read", "write"}
         IN  /\ (readers.pc[s] \in inLoop /\ readers'.pc[s] \notin inLoop) =>
                    /\ readers'.pc[s] = "close"
                    /\ readers'.pipeClosed[s] = 0
             /\ (readers.pc[s] = "close" /\ readers'.pc[s] # "close") =>
                    /\ readers'.pc[s] = "done"
                    /\ readers'.pipeClosed[s] = 1
             /\ readers'.pc[s] = "done" => readers'.pipeClosed[s] = 1
      ]_vars

\* stdout ended on a read outcome before any line and with no stop signal,
\* stderr ended on the stop signal after two lines; both pipes are closed
C31_Witness ==
    /\ readers.pc["stdout"] = "done" /\ readers.k["stdout"] = 0
    /\ readers.after["stdout"] = 0
    /\ readers.pc["stderr"] = "done" /\ readers.k["stderr"] = 2
    /\ readers.after["stderr"] = 0
    /\ readers.pid \in eventSet
    /\ \A s \in Streams : readers.pipeClosed[s] = 1


(***************************************************************************)
(* Properties of the signals, over GroupSpec.                              *)
(***************************************************************************)
\* C32: the SIGTERM/SIGKILL of stop(X) reach only the process spawned for X
\* (and its descendants), never the supervisor and never a process tracked
\* under another name, also when the process of X was not put in a process
\* group of its own at spawn.
C32_SignalsOnlyOwnProcess ==
    last.op = "stop" =>
        /\ last.reached.pids \subseteq {last.pid}
        /\ ~last.reached.supervisor
        /\ last.reached.pids \cap last.tracked = {}


(***************************************************************************)
(* Further properties of the calls, over Spec.                             *)
(***************************************************************************)
\* C33: when stop(name) returns success, the process that was tracked under
\* name has terminated; an entry is never removed while its process is
\* alive, so every live process the supervisor spawned is in the table.
C33_StopSuccessMeansTerminated ==
    [][/\ (last'.op = "stop" /\ last'.ok) =>
              processes[last'.name] \notin alive'
       /\ \A n \in DOMAIN processes \ DOMAIN processes' :
              processes[n] \notin alive'
       /\ \A p \in alive' : \E n \in DOMAIN processes' : processes'[n] = p
      ]_vars


(***************************************************************************)
(* Properties of the sweeping calls, over SweepSpec.                       *)
(***************************************************************************)
\* C34: cleanup_dead_processes and stop_all, run while a stop removes a name
\* from the table, never end in an error that nothing handles (such as the
\* KeyError of a lookup of the removed name): each returns its result.
C34_SweepsNeverRaise ==
    \A w \in Workers :
        loc[w].op \in SweepOps =>
            /\ pc[w] # "raised"
            /\ loc[w].raised = ""


\* C35: a reader never attempts a write to the log file after the cleanup
\* routine has closed it, and the cleanup routine does not close the log
\* file while a reader still has a line to write.
C35_NoWriteAfterClose ==
    [][/\ \A s \in Streams :
            (readers.pc[s] = "write" /\ readers'.pc[s] # "write") =>
                closeCalls[readers.pid] = 0
       /\ closeCalls'[readers.pid] # closeCalls[readers.pid] =>
              \A s \in Streams : readers.pc[s] # "write"
      ]_vars


\* C36: between the calls (start, stop, cleanup_dead_processes, stop_all
\* each run to completion), every name with a registered stop event, reader
\* list or log file is in the process table, the stop-event map and the
\* reader map have the same keys, and the keys of the log-file map are among
\* them.
C36_StreamingKeysTracked ==
    /\ DOMAIN _stop_events \subseteq DOMAIN processes
    /\ DOMAIN _stream_threads \subseteq DOMAIN processes
    /\ DOMAIN _log_files \subseteq DOMAIN processes
    /\ DOMAIN _stop_events = DOMAIN _stream_threads
    /\ DOMAIN _log_files \subseteq DOMAIN _stop_events

\* A stop has removed X and all its streaming resources, Y keeps its own
C36_Witness ==
    /\ last.op = "stop" /\ last.name = "X" /\ last.ok
    /\ DOMAIN processes = {"Y"}
    /\ DOMAIN _stop_events = {"Y"}
    /\ DOMAIN _stream_threads = {"Y"}
    /\ DOMAIN _log_files = {"Y"}


C38_ReadersEndAfterStop ==
    (last.op = "stop" /\ last.ok) ~>
        (\A s \in Streams :
            readers.pc[s] = "done" /\ readers.pipeClosed[s] = 1)


\* C39: is_running, get_all_statuses and get_process change neither the
\* process table nor any streaming resource; an entry whose process has
\* died stays in the table until a stop (also through stop_all), a
\* cleanup_dead_processes or a new start for its name removes or replaces
\* it.
C39_QueriesChangeNothing ==
    [][/\ last'.op \in {"is_running", "get_all_statuses", "get_process"} =>
              State' = State
       /\ \A n \in DOMAIN processes :
              (/\ processes[n] \notin alive
               /\ (n \notin DOMAIN processes' \/ processes'[n] # processes[n])) =>
                  \/ last'.op \in {"stop", "start"} /\ last'.name = n
                  \/ last'.op \in {"cleanup_dead_processes", "stop_all"}
      ]_vars

\* get_process has answered None for a tracked name whose process has
\* exited, and the entry and its streaming resources are still there
C39_Witness ==
    /\ last.op = "get_process" /\ last.name = "X"
    /\ ~last.value.found
    /\ "X" \in DOMAIN processes /\ processes["X"] \notin alive
    /\ "X" \in DOMAIN _stop_events /\ "X" \in DOMAIN _log_files
    /\ "Y" \in DOMAIN processes


(***************************************************************************)
(* Further properties of the providers, over ProviderSpec.                 *)
(***************************************************************************)
\* C40: prepare_config is idempotent for every provider: applied to its own
\* output it returns the same configuration; in particular the identifier
\* it derived on the first application is unchanged by the second.
C40_PrepareConfigIdempotent ==
    last.op = "prepare_config_again" =>
        /\ last.value = last.config
        /\ last.value[IdentifierKey(last.provider)]
               = last.config[IdentifierKey(last.provider)]

\* The second application to a Snapcast configuration whose host_id the
\* first one derived from the name
C40_Witness ==
    /\ last.op = "prepare_config_again"
    /\ last.provider = "snapcast"
    /\ Has(last.config, "name")
    /\ last.config.name = "Kitchen"
    /\ last.config.host_id = GenerateHostId("Kitchen")
    /\ last.config.host_id # "my-host"
    /\ last.config.volume = 50
    /\ last.value.host_id = last.config.host_id

====
